---- MODULE Spec2Model ----
(*
  Model of NSPanelUpdater (firmware version acquisition and update
  orchestration), NSPanelMessageParser, PageNodeBase and PageThermoNode of
  node-red-contrib-nspanel-lui.

  Every public entry point of the class is one action; the private methods it
  calls are operators over a record of the fields they read and write, so an
  action is the whole handler.  JavaScript runs one callback at a time, hence
  the handlers are atomic with respect to each other.

  Strings are sequences of tokens, so that prefix tests, substring and
  concatenation are computed and not assumed.  A nullable object is a set with
  at most one element.
*)
EXTENDS Integers, Sequences, FiniteSets, TLC

VARIABLES
    updateInProgress,   \* NSPanelUpdater._updateInProgress
    updateTaskStack,    \* NSPanelUpdater._updateTaskStack
    status,             \* _updateVersionData.versionAcquisitionStatus (bit mask)
    current,            \* _updateVersionData.versions.current
    latest,             \* _updateVersionData.versions.latest
    autoUpdate,         \* _options.autoUpdate
    rounds,             \* one closure of _acquireVersions per checkForUpdates call
    fetches,            \* HTTP requests of getLatestVersion still in flight, per kind
    sent,               \* what the last handler sent to the panel, in order
    notified,           \* notifications the last handler showed
    settled,            \* promise settlement performed by the last handler
    taskEntry,          \* latch and stack on entry to processUpdateTasks in the last handler
    lastInput,          \* the last update event or confirmation received
    input,              \* the last call of a decoder function: its name and argument
    output,             \* what that call returned or threw
    isActive,           \* PageNodeBase.isActive
    pageData,           \* PageNodeBase.pageData
    options,            \* PageNodeBase.options
    config,             \* PageThermoNode.config
    data,               \* PageThermoNode.data
    pageCache,          \* the page cache of the node
    emitted,            \* the events the last handler of the page node emitted, in order
    pageInput,          \* the last message the page node received
    generated           \* what the last call of generatePage returned

vars == <<updateInProgress, updateTaskStack, status, current, latest, autoUpdate,
          rounds, fetches, sent, notified, settled, taskEntry, lastInput, input, output,
          isActive, pageData, options, config, data, pageCache, emitted, pageInput,
          generated>>

\* the variables of a page node, which neither the updater nor the decoder touches
pageVars == <<isActive, pageData, options, config, data, pageCache, emitted, pageInput,
              generated>>

\* the variables of NSPanelUpdater, which the decoder does not touch
updaterVars == <<updateInProgress, updateTaskStack, status, current, latest, autoUpdate,
                 rounds, fetches, sent, notified, settled, taskEntry, lastInput>>

----------------------------------------------------------------------------
\* Bounds of the model

MaxStack == 3        \* confirmations are accepted while the stack is shorter
MaxRounds == 1       \* number of checkForUpdates calls
MaxLatePolls == 1    \* polls followed after the counter i has reached 0
MaxCalls == 2        \* checkForUpdates calls where rounds overlap
MaxEarlyPolls == 2   \* polls followed per round where rounds overlap
MaxItems == 3        \* entities in the payload of one 'data' message
MaxOption == 2       \* the largest maxEntities of a page type other than cardThermo

----------------------------------------------------------------------------
\* Values

None == {}
Some(x) == {x}
Get(o) == CHOOSE x \in o : TRUE

Last(s) == s[Len(s)]
Front(s) == SubSeq(s, 1, Len(s) - 1)

FIRMWARE_TASMOTA == <<"tasmota">>
FIRMWARE_BERRYDRIVER == <<"berrydriver">>
FIRMWARE_HMI == <<"hmi">>
FirmwareTypes == {FIRMWARE_TASMOTA, FIRMWARE_BERRYDRIVER, FIRMWARE_HMI}

STR_UPDATE_FIRMWARE_TASMOTA == <<"tasmota">>
STR_UPDATE_FIRMWARE_BERRYDRIVER == <<"berrydriver">>
STR_UPDATE_FIRMWARE_HMI == <<"hmi">>
STR_UPDATE_NOTIFY_PREFIX == <<"update", ".">>
STR_LUI_NOTIFY_ACTION_YES == <<"yes">>

NullStr == <<"\\null">>
stringIsNullOrEmpty(s) == s = NullStr \/ s = <<>>

\* String.prototype.indexOf(prefix) === 0
StartsWith(s, p) == Len(s) >= Len(p) /\ SubSeq(s, 1, Len(p)) = p
\* String.prototype.substring(n)
SubstringFrom(s, n) == SubSeq(s, n + 1, Len(s))

----------------------------------------------------------------------------
\* VersionAcquisitionStatus

TasmotaVersionCurrent == 1
TasmotaVersionLatest == 2
BerryDriverVersionCurrent == 4
BerryDriverVersionLatest == 8
HmiVersionCurrent == 16
HmiVersionLatest == 32
AllAcquired == 63
TasmotaUpdateAvailable == 64
BerryDriverUpdateAvailable == 128
HmiUpdateAvailable == 256
StatusNone == 0

\* s & f # 0, for a single-bit f
HasFlag(s, f) == (s \div f) % 2 = 1
\* s |= f, for a single-bit f
SetFlag(s, f) == IF HasFlag(s, f) THEN s ELSE s + f
\* s & AllAcquired
AndAllAcquired(s) == s % (AllAcquired + 1)

----------------------------------------------------------------------------
\* Commands sent to the panel

HmiFirmwareUrl == <<"http://nspanel.pky.eu/lui-release.tft">>
OtaUrl == <<"http://ota.tasmota.com/tasmota32/release/tasmota32-nspanel.bin">>
URL_BERRYDRIVER_LATEST ==
    <<"https://raw.githubusercontent.com/joBr99/nspanel-lovelace-ui/main/tasmota/autoexec.be">>

\* this._mqttHandler?.sendCommandToPanel(cmd, {payload}); busy is the value of
\* _updateInProgress at the moment of the call, onEntry its value when the
\* calling procedure was entered.
Command(cmd, payload, onEntry, busy) ==
    [cmd |-> cmd, payload |-> payload, onEntry |-> onEntry, busy |-> busy]

BerryUpdCmd ==
    <<"STR_TASMOTA_CMD_BACKLOG", " ", "STR_BERRYDRIVER_CMD_UPDATEDRIVER", " ">>
        \o URL_BERRYDRIVER_LATEST
        \o <<"; ", "STR_TASMOTA_CMD_RESTART", " ", "STR_TASMOTA_PARAM_RESTART_SAVE_TO_FLASH">>

UpdateCommands == {"STR_BERRYDRIVER_CMD_FLASHNEXTION", "STR_TASMOTA_CMD_BACKLOG",
                   "STR_TASMOTA_CMD_OTAURL", "STR_TASMOTA_CMD_UPGRADE"}

----------------------------------------------------------------------------
\* The update procedures.  st is the record [inProgress, stack, sent, entry]:
\* the two fields they touch, what they send, and the latch and stack that
\* processUpdateTasks found on entry.

\* _updateHmi without the test of the latch
_updateHmi_NoLatchCheck(st) ==
    [st EXCEPT !.inProgress = TRUE,
               !.sent = Append(@, Command("STR_BERRYDRIVER_CMD_FLASHNEXTION",
                                          HmiFirmwareUrl, st.inProgress, TRUE))]

\* _updateHmi that drops the task when the latch is set
_updateHmi_NoRepush(st) ==
    IF st.inProgress
    THEN st
    ELSE [st EXCEPT !.inProgress = TRUE,
                    !.sent = Append(@, Command("STR_BERRYDRIVER_CMD_FLASHNEXTION",
                                               HmiFirmwareUrl, st.inProgress, TRUE))]

_updateHmi(st) ==
    IF st.inProgress
    THEN [st EXCEPT !.stack = Append(@, FIRMWARE_HMI)]
    ELSE [st EXCEPT !.inProgress = TRUE,
                    !.sent = Append(@, Command("STR_BERRYDRIVER_CMD_FLASHNEXTION",
                                               HmiFirmwareUrl, st.inProgress, TRUE))]

\* _updateBerryDriver that drops the task when the latch is set
_updateBerryDriver_NoRepush(st) ==
    IF st.inProgress
    THEN st
    ELSE [st EXCEPT !.inProgress = TRUE,
                    !.sent = Append(@, Command("STR_TASMOTA_CMD_BACKLOG",
                                               BerryUpdCmd, st.inProgress, TRUE))]

_updateBerryDriver(st) ==
    IF st.inProgress
    THEN [st EXCEPT !.stack = Append(@, FIRMWARE_BERRYDRIVER)]
    ELSE [st EXCEPT !.inProgress = TRUE,
                    !.sent = Append(@, Command("STR_TASMOTA_CMD_BACKLOG",
                                               BerryUpdCmd, st.inProgress, TRUE))]

\* _updateTasmotaFirmware that triggers the upgrade before it sets the URL
_updateTasmotaFirmware_UpgradeFirst(st) ==
    IF st.inProgress
    THEN [st EXCEPT !.stack = Append(@, FIRMWARE_TASMOTA)]
    ELSE [st EXCEPT !.inProgress = TRUE,
                    !.sent = @ \o <<Command("STR_TASMOTA_CMD_UPGRADE", <<"1">>, st.inProgress, TRUE),
                                    Command("STR_TASMOTA_CMD_OTAURL", OtaUrl, st.inProgress, TRUE)>>]

_updateTasmotaFirmware(st) ==
    IF st.inProgress
    THEN [st EXCEPT !.stack = Append(@, FIRMWARE_TASMOTA)]
    ELSE [st EXCEPT !.inProgress = TRUE,
                    !.sent = @ \o <<Command("STR_TASMOTA_CMD_OTAURL", OtaUrl, st.inProgress, TRUE),
                                    Command("STR_TASMOTA_CMD_UPGRADE", <<"1">>, st.inProgress, TRUE)>>]

\* processUpdateTasks taking the oldest task (shift instead of pop)
processUpdateTasks_Fifo(st) ==
    IF st.stack = <<>>
    THEN [st EXCEPT !.entry = Some([inProgress |-> st.inProgress, stack |-> st.stack])]
    ELSE LET fwTask == Head(st.stack)
             popped == [st EXCEPT !.stack = Tail(@),
                                  !.entry = Some([inProgress |-> st.inProgress, stack |-> st.stack])]
         IN  CASE fwTask = FIRMWARE_TASMOTA -> _updateTasmotaFirmware(popped)
               [] fwTask = FIRMWARE_BERRYDRIVER -> _updateBerryDriver(popped)
               [] fwTask = FIRMWARE_HMI -> _updateHmi(popped)
               [] OTHER -> popped

\* Array.prototype.pop() on an empty array returns undefined: no case matches.
processUpdateTasks(st) ==
    IF st.stack = <<>>
    THEN [st EXCEPT !.entry = Some([inProgress |-> st.inProgress, stack |-> st.stack])]
    ELSE LET fwTask == Last(st.stack)
             popped == [st EXCEPT !.stack = Front(@),
                                  !.entry = Some([inProgress |-> st.inProgress, stack |-> st.stack])]
         IN  CASE fwTask = FIRMWARE_TASMOTA -> _updateTasmotaFirmware(popped)
               [] fwTask = FIRMWARE_BERRYDRIVER -> _updateBerryDriver(popped)
               [] fwTask = FIRMWARE_HMI -> _updateHmi(popped)
               [] OTHER -> popped

TaskState ==
    [inProgress |-> updateInProgress, stack |-> updateTaskStack, sent |-> <<>>, entry |-> None]

----------------------------------------------------------------------------
\* Version strings and their comparison

\* semver.parse for the version strings of the model; semver.gt is only
\* applied to strings that parse.
SemverParse(v) ==
    CASE v = <<"1.9.0">> -> <<1, 9, 0>>
      [] v = <<"1.10.0">> -> <<1, 10, 0>>

\* semver.gt(a, b): major, then minor, then patch, compared as numbers
SemverGt(a, b) ==
    LET x == SemverParse(a)
        y == SemverParse(b)
    IN  \/ x[1] > y[1]
        \/ x[1] = y[1] /\ x[2] > y[2]
        \/ x[1] = y[1] /\ x[2] = y[2] /\ x[3] > y[3]

\* code unit of a digit character
CharCode(c) ==
    CASE c = "0" -> 48 [] c = "1" -> 49 [] c = "2" -> 50 [] c = "3" -> 51
      [] c = "4" -> 52 [] c = "5" -> 53 [] c = "6" -> 54 [] c = "7" -> 55
      [] c = "8" -> 56 [] c = "9" -> 57

\* a > b on two JavaScript strings: the first differing code unit decides, a
\* proper prefix is smaller
RECURSIVE StrGt(_, _)
StrGt(a, b) ==
    IF a = <<>> THEN FALSE
    ELSE IF b = <<>> THEN TRUE
    ELSE IF CharCode(Head(a)) # CharCode(Head(b)) THEN CharCode(Head(a)) > CharCode(Head(b))
    ELSE StrGt(Tail(a), Tail(b))

\* String.prototype.indexOf('('), 0-based, -1 when absent
IndexOfParen(s) ==
    IF \E n \in 1..Len(s) : s[n] = "("
    THEN (CHOOSE n \in 1..Len(s) : s[n] = "(" /\ \A m \in 1..(n - 1) : s[m] # "(") - 1
    ELSE -1

----------------------------------------------------------------------------
\* Current versions.  vd is the record [status, current, latest] of
\* _updateVersionData.

setTasmotaVersion(vd, tasmotaVersion) ==
    IF tasmotaVersion # None
    THEN LET v == Get(tasmotaVersion)
             tV == IF IndexOfParen(v) > 0 THEN SubSeq(v, 1, IndexOfParen(v)) ELSE v
         IN  [vd EXCEPT !.current.tasmota = Some([version |-> tV]),
                        !.status = SetFlag(@, TasmotaVersionCurrent)]
    ELSE vd

\* setBerryDriverVersion setting the flag of the latest version
setBerryDriverVersion_LatestFlag(vd, version) ==
    IF version # None
    THEN [vd EXCEPT !.current.berryDriver = Some([version |-> Get(version)]),
                    !.status = SetFlag(@, BerryDriverVersionLatest)]
    ELSE vd

setBerryDriverVersion(vd, version) ==
    IF version # None
    THEN [vd EXCEPT !.current.berryDriver = Some([version |-> Get(version)]),
                    !.status = SetFlag(@, BerryDriverVersionCurrent)]
    ELSE vd

setHmiVersion(vd, hmiVersion) ==
    [vd EXCEPT !.current.hmi = hmiVersion,
               !.status = SetFlag(@, HmiVersionCurrent)]

VersionData == [status |-> status, current |-> current, latest |-> latest]

----------------------------------------------------------------------------
\* Latest versions (getLatestVersion).  A response body is a sequence of
\* assignments [name, value]; the extraction patterns look for their names.

\* BERRY_DRIVER_REGEX: version_of_this_script\s*=\s*(?<version>\d+)
BerryDriverMatch(body) ==
    IF \E n \in 1..Len(body) : body[n].name = "version_of_this_script" /\ body[n].value # <<>>
    THEN Some([version |-> body[CHOOSE n \in 1..Len(body) :
                                    /\ body[n].name = "version_of_this_script"
                                    /\ body[n].value # <<>>
                                    /\ \A m \in 1..(n - 1) :
                                          ~(body[m].name = "version_of_this_script"
                                            /\ body[m].value # <<>>)].value])
    ELSE None

\* NLUI_HMI_VERSION_REGEX: desired_display_firmware_version\s*=\s*(?<internalVersion>\d+)
\* \s*version\s*=\s*['"]v(?<version>.*)['"]
NluiHmiMatch(body) ==
    LET hit(n) == /\ body[n].name = "desired_display_firmware_version"
                  /\ body[n].value # <<>>
                  /\ body[n + 1].name = "version"
                  /\ body[n + 1].value # <<>>
                  /\ Head(body[n + 1].value) = "v"
    IN  IF \E n \in 1..(Len(body) - 1) : hit(n)
        THEN LET n == CHOOSE k \in 1..(Len(body) - 1) : hit(k) /\ \A m \in 1..(k - 1) : ~hit(m)
             IN  Some([internalVersion |-> body[n].value, version |-> Tail(body[n + 1].value)])
        ELSE None

\* the three .then callbacks of getLatestVersion; response is the response
\* object of the request of that kind
onLatestTasmota(vd, response) ==
    IF response.data.tag_name # None
    THEN [vd EXCEPT !.latest.tasmota = Some([version |-> SubstringFrom(Get(response.data.tag_name), 1)]),
                    !.status = SetFlag(@, TasmotaVersionLatest)]
    ELSE vd

\* the berry driver callback setting its flag whatever the body holds
onLatestBerryDriver_AlwaysFlag(vd, response) ==
    IF response.data # None /\ BerryDriverMatch(Get(response.data)) # None
    THEN [vd EXCEPT !.latest.berryDriver = BerryDriverMatch(Get(response.data)),
                    !.status = SetFlag(@, BerryDriverVersionLatest)]
    ELSE [vd EXCEPT !.status = SetFlag(@, BerryDriverVersionLatest)]

onLatestBerryDriver(vd, response) ==
    IF response.data # None /\ BerryDriverMatch(Get(response.data)) # None
    THEN [vd EXCEPT !.latest.berryDriver = BerryDriverMatch(Get(response.data)),
                    !.status = SetFlag(@, BerryDriverVersionLatest)]
    ELSE vd

\* the HMI callback setting the flag of the comparison instead of its own
onLatestHmi_WrongFlag(vd, response) ==
    IF response.data # None /\ NluiHmiMatch(Get(response.data)) # None
    THEN [vd EXCEPT !.latest.hmi = NluiHmiMatch(Get(response.data)),
                    !.status = SetFlag(@, HmiUpdateAvailable)]
    ELSE vd

onLatestHmi(vd, response) ==
    IF response.data # None /\ NluiHmiMatch(Get(response.data)) # None
    THEN [vd EXCEPT !.latest.hmi = NluiHmiMatch(Get(response.data)),
                    !.status = SetFlag(@, HmiVersionLatest)]
    ELSE vd

----------------------------------------------------------------------------
\* _acquireVersions

PollCount == 10          \* let i = 10
PollIntervalMs == 1000   \* setTimeout(waitForDataAcquisition, 1000)

\* the closure of one _acquireVersions call: the counter i, the promise, the
\* pending timer; polls and elapsed count the runs of waitForDataAcquisition
\* and the timer delays behind them
NewRound == [i |-> PollCount, promise |-> "pending", timer |-> FALSE, polls |-> 0, elapsed |-> 0]

\* resolve / reject of a promise: only a pending promise changes
Resolve(p) == IF p = "pending" THEN "resolved" ELSE p
Reject(p) == IF p = "pending" THEN "rejected" ELSE p

\* the flags computed once all six versions are known
ComputeAvailable(vd) ==
    LET s1 == IF SemverGt(Get(vd.latest.tasmota).version, Get(vd.current.tasmota).version)
              THEN SetFlag(vd.status, TasmotaUpdateAvailable) ELSE vd.status
        s2 == IF StrGt(Get(vd.latest.berryDriver).version, Get(vd.current.berryDriver).version)
              THEN SetFlag(s1, BerryDriverUpdateAvailable) ELSE s1
        s3 == IF StrGt(Get(vd.latest.hmi).internalVersion, Get(vd.current.hmi).internalVersion)
              THEN SetFlag(s2, HmiUpdateAvailable) ELSE s2
    IN  s3

\* waitForDataAcquisition that rejects one poll early
waitForDataAcquisition_RejectEarly(vd, rd) ==
    IF AndAllAcquired(vd.status) = AllAcquired
    THEN LET s == ComputeAvailable(vd)
         IN  [vd |-> [vd EXCEPT !.status = s],
              rd |-> [rd EXCEPT !.promise = Resolve(@), !.timer = FALSE, !.polls = @ + 1],
              settled |-> IF rd.promise = "pending"
                          THEN Some([how |-> "resolved", value |-> s]) ELSE None]
    ELSE LET i == rd.i - 1
         IN  [vd |-> vd,
              rd |-> [rd EXCEPT !.i = i, !.timer = TRUE, !.polls = @ + 1,
                                !.promise = IF i = 1 THEN Reject(@) ELSE @],
              settled |-> IF i = 1 /\ rd.promise = "pending"
                          THEN Some([how |-> "rejected", value |-> vd.status]) ELSE None]

\* waitForDataAcquisition that resolves without comparing the versions
waitForDataAcquisition_NoCompare(vd, rd) ==
    IF AndAllAcquired(vd.status) = AllAcquired
    THEN [vd |-> vd,
          rd |-> [rd EXCEPT !.promise = Resolve(@), !.timer = FALSE, !.polls = @ + 1],
          settled |-> IF rd.promise = "pending"
                      THEN Some([how |-> "resolved", value |-> vd.status]) ELSE None]
    ELSE LET i == rd.i - 1
         IN  [vd |-> vd,
              rd |-> [rd EXCEPT !.i = i, !.timer = TRUE, !.polls = @ + 1,
                                !.promise = IF i = 0 THEN Reject(@) ELSE @],
              settled |-> IF i = 0 /\ rd.promise = "pending"
                          THEN Some([how |-> "rejected", value |-> vd.status]) ELSE None]

\* one run of waitForDataAcquisition on the closure rd; the result holds the
\* new version data, the new closure and the settlement of the promise
waitForDataAcquisition(vd, rd) ==
    IF AndAllAcquired(vd.status) = AllAcquired
    THEN LET s == ComputeAvailable(vd)
         IN  [vd |-> [vd EXCEPT !.status = s],
              rd |-> [rd EXCEPT !.promise = Resolve(@), !.timer = FALSE, !.polls = @ + 1],
              settled |-> IF rd.promise = "pending"
                          THEN Some([how |-> "resolved", value |-> s]) ELSE None]
    ELSE LET i == rd.i - 1
         IN  [vd |-> vd,
              rd |-> [rd EXCEPT !.i = i, !.timer = TRUE, !.polls = @ + 1,
                                !.promise = IF i = 0 THEN Reject(@) ELSE @],
              settled |-> IF i = 0 /\ rd.promise = "pending"
                          THEN Some([how |-> "rejected", value |-> vd.status]) ELSE None]

\* requests for the current versions, in the order _acquireVersions issues them
VersionRequests ==
    <<Command("STR_TASMOTA_CMD_STATUS", <<"2">>, updateInProgress, updateInProgress),
      Command("STR_BERRYDRIVER_CMD_GETVERSION", <<"x">>, updateInProgress, updateInProgress),
      Command("", <<"STR_LUI_CMD_ACTIVATE_STARTUP_PAGE">>, updateInProgress, updateInProgress)>>

----------------------------------------------------------------------------
\* checkForUpdates: the callbacks on the acquisition promise

\* showUpdateNotification that uses the kind id as the notify id
showUpdateNotification_NoPrefix(notifyId, notifyTextMain, currentVersion, latestVersion) ==
    [notifyId |-> notifyId,
     text |-> <<notifyTextMain, currentVersion, latestVersion>>]

showUpdateNotification(notifyId, notifyTextMain, currentVersion, latestVersion) ==
    [notifyId |-> STR_UPDATE_NOTIFY_PREFIX \o notifyId,
     text |-> <<notifyTextMain, currentVersion, latestVersion>>]

\* the three if statements in the order tasmota, berry driver, HMI
ChosenNotification_HmiLast(vd) ==
    LET n0 == None
        n1 == IF HasFlag(vd.status, TasmotaUpdateAvailable)
              THEN Some(<<STR_UPDATE_FIRMWARE_TASMOTA, "newFirmwareTasmotaTextMain",
                          Get(vd.current.tasmota).version,
                          Get(vd.latest.tasmota).version>>)
              ELSE n0
        n2 == IF HasFlag(vd.status, BerryDriverUpdateAvailable)
              THEN Some(<<STR_UPDATE_FIRMWARE_BERRYDRIVER, "newBerryDriverTextMain",
                          Get(vd.current.berryDriver).version,
                          Get(vd.latest.berryDriver).version>>)
              ELSE n1
        n3 == IF HasFlag(vd.status, HmiUpdateAvailable)
              THEN Some(<<STR_UPDATE_FIRMWARE_HMI, "newHmiTextMain",
                          Get(vd.current.hmi).internalVersion,
                          Get(vd.latest.hmi).version \o <<" (">>
                              \o Get(vd.latest.hmi).internalVersion \o <<")">> >>)
              ELSE n2
    IN  n3

\* the notification chosen by the three consecutive if statements: a later
\* one overwrites what an earlier one has set
ChosenNotification(vd) ==
    LET n0 == None
        n1 == IF HasFlag(vd.status, HmiUpdateAvailable)
              THEN Some(<<STR_UPDATE_FIRMWARE_HMI, "newHmiTextMain",
                          Get(vd.current.hmi).internalVersion,
                          Get(vd.latest.hmi).version \o <<" (">>
                              \o Get(vd.latest.hmi).internalVersion \o <<")">> >>)
              ELSE n0
        n2 == IF HasFlag(vd.status, BerryDriverUpdateAvailable)
              THEN Some(<<STR_UPDATE_FIRMWARE_BERRYDRIVER, "newBerryDriverTextMain",
                          Get(vd.current.berryDriver).version,
                          Get(vd.latest.berryDriver).version>>)
              ELSE n1
        n3 == IF HasFlag(vd.status, TasmotaUpdateAvailable)
              THEN Some(<<STR_UPDATE_FIRMWARE_TASMOTA, "newFirmwareTasmotaTextMain",
                          Get(vd.current.tasmota).version,
                          Get(vd.latest.tasmota).version>>)
              ELSE n2
    IN  n3

\* the .then callback: the notifications it shows
onAcquired(vd, auto) ==
    IF auto = FALSE
    THEN LET n == ChosenNotification(vd)
         IN  IF n # None
             THEN <<showUpdateNotification(Get(n)[1], Get(n)[2], Get(n)[3], Get(n)[4])>>
             ELSE <<>>
    ELSE <<>>

\* callbacks that treat a rejection like a resolution
Callbacks_NotifyOnReject(res, auto) ==
    IF res.settled # None
    THEN <<showUpdateNotification(STR_UPDATE_FIRMWARE_TASMOTA, "newFirmwareTasmotaTextMain",
                                  <<>>, <<>>)>>
    ELSE <<>>

\* callbacks run for a settlement: .then shows notifications, .catch logs
Callbacks(res, auto) ==
    IF res.settled # None /\ Get(res.settled).how = "resolved"
    THEN onAcquired(res.vd, auto)
    ELSE <<>>

----------------------------------------------------------------------------
\* The handlers, as functions of the task state st and the version data vd

\* onFirmwareEvent that processes the tasks without clearing the latch
onFirmwareEvent_NoClear(st, vd, fwEvent) ==
    CASE fwEvent.event = "version" ->
            [st |-> st,
             vd |-> IF fwEvent.source = STR_UPDATE_FIRMWARE_TASMOTA
                    THEN setTasmotaVersion(vd, fwEvent.version)
                    ELSE IF fwEvent.source = STR_UPDATE_FIRMWARE_BERRYDRIVER
                    THEN setBerryDriverVersion(vd, fwEvent.version)
                    ELSE vd]
      [] fwEvent.event = "update" ->
            [st |-> IF fwEvent.status = "success" THEN processUpdateTasks(st) ELSE st,
             vd |-> vd]
      [] OTHER -> [st |-> st, vd |-> vd]

\* onFirmwareEvent that takes every update event for a success
onFirmwareEvent_AnyStatus(st, vd, fwEvent) ==
    CASE fwEvent.event = "version" ->
            [st |-> st,
             vd |-> IF fwEvent.source = STR_UPDATE_FIRMWARE_TASMOTA
                    THEN setTasmotaVersion(vd, fwEvent.version)
                    ELSE IF fwEvent.source = STR_UPDATE_FIRMWARE_BERRYDRIVER
                    THEN setBerryDriverVersion(vd, fwEvent.version)
                    ELSE vd]
      [] fwEvent.event = "update" ->
            [st |-> processUpdateTasks([st EXCEPT !.inProgress = FALSE]), vd |-> vd]
      [] OTHER -> [st |-> st, vd |-> vd]

\* onFirmwareEvent that clears the latch on success and processes no task
onFirmwareEvent_ClearOnly(st, vd, fwEvent) ==
    CASE fwEvent.event = "version" ->
            [st |-> st,
             vd |-> IF fwEvent.source = STR_UPDATE_FIRMWARE_TASMOTA
                    THEN setTasmotaVersion(vd, fwEvent.version)
                    ELSE IF fwEvent.source = STR_UPDATE_FIRMWARE_BERRYDRIVER
                    THEN setBerryDriverVersion(vd, fwEvent.version)
                    ELSE vd]
      [] fwEvent.event = "update" ->
            [st |-> IF fwEvent.status = "success"
                    THEN [st EXCEPT !.inProgress = FALSE]
                    ELSE st,
             vd |-> vd]
      [] OTHER -> [st |-> st, vd |-> vd]

onFirmwareEvent(st, vd, fwEvent) ==
    CASE fwEvent.event = "version" ->
            [st |-> st,
             vd |-> IF fwEvent.source = STR_UPDATE_FIRMWARE_TASMOTA
                    THEN setTasmotaVersion(vd, fwEvent.version)
                    ELSE IF fwEvent.source = STR_UPDATE_FIRMWARE_BERRYDRIVER
                    THEN setBerryDriverVersion(vd, fwEvent.version)
                    ELSE vd]
      [] fwEvent.event = "update" ->
            [st |-> IF fwEvent.status = "success"
                    THEN processUpdateTasks([st EXCEPT !.inProgress = FALSE])
                    ELSE st,
             vd |-> vd]
      [] OTHER -> [st |-> st, vd |-> vd]

\* onUpdateNotificationResult that accepts every non-empty action
onUpdateNotificationResult_AnyAction(st, notifyId, action) ==
    IF /\ ~stringIsNullOrEmpty(notifyId)
       /\ ~stringIsNullOrEmpty(action)
    THEN LET confirmedFirmware ==
                 IF StartsWith(notifyId, STR_UPDATE_NOTIFY_PREFIX)
                 THEN Some(SubstringFrom(notifyId, Len(STR_UPDATE_NOTIFY_PREFIX)))
                 ELSE None
             pushed ==
                 CASE confirmedFirmware = Some(STR_UPDATE_FIRMWARE_TASMOTA) ->
                         [st EXCEPT !.stack = Append(@, FIRMWARE_TASMOTA)]
                   [] confirmedFirmware = Some(STR_UPDATE_FIRMWARE_BERRYDRIVER) ->
                         [st EXCEPT !.stack = Append(@, FIRMWARE_BERRYDRIVER)]
                   [] confirmedFirmware = Some(STR_UPDATE_FIRMWARE_HMI) ->
                         [st EXCEPT !.stack = Append(@, FIRMWARE_HMI)]
                   [] OTHER -> st
         IN  processUpdateTasks(pushed)
    ELSE st

onUpdateNotificationResult(st, notifyId, action) ==
    IF /\ ~stringIsNullOrEmpty(notifyId)
       /\ ~stringIsNullOrEmpty(action)
       /\ STR_LUI_NOTIFY_ACTION_YES = action
    THEN LET confirmedFirmware ==
                 IF StartsWith(notifyId, STR_UPDATE_NOTIFY_PREFIX)
                 THEN Some(SubstringFrom(notifyId, Len(STR_UPDATE_NOTIFY_PREFIX)))
                 ELSE None
             pushed ==
                 CASE confirmedFirmware = Some(STR_UPDATE_FIRMWARE_TASMOTA) ->
                         [st EXCEPT !.stack = Append(@, FIRMWARE_TASMOTA)]
                   [] confirmedFirmware = Some(STR_UPDATE_FIRMWARE_BERRYDRIVER) ->
                         [st EXCEPT !.stack = Append(@, FIRMWARE_BERRYDRIVER)]
                   [] confirmedFirmware = Some(STR_UPDATE_FIRMWARE_HMI) ->
                         [st EXCEPT !.stack = Append(@, FIRMWARE_HMI)]
                   [] OTHER -> st
         IN  processUpdateTasks(pushed)
    ELSE st

----------------------------------------------------------------------------------------------------------------------------------------
\* Inputs

Statuses == {"success", "failed", "null"}

VersionEvent(source, version) ==
    [event |-> "version", source |-> source, status |-> "null", version |-> version]
UpdateEvent(source, st) ==
    [event |-> "update", source |-> source, status |-> st, version |-> None]

TasmotaReports == {<<"1.9.0">>, <<"1.10.0", "(", "nspanel", ")">>}
BerryDriverReports == {<<"8">>, <<"9">>}
HmiReports == {[internalVersion |-> <<"5", "2">>, model |-> "eu"],
               [internalVersion |-> <<"5", "3">>, model |-> "eu"]}

VersionEvents ==
    {VersionEvent(FIRMWARE_TASMOTA, Some(v)) : v \in TasmotaReports}
        \cup {VersionEvent(FIRMWARE_BERRYDRIVER, Some(v)) : v \in BerryDriverReports}
NoVersionEvents ==
    {VersionEvent(FIRMWARE_TASMOTA, None), VersionEvent(FIRMWARE_HMI, Some(<<"5", "3">>)),
     [event |-> "otaUrl", source |-> FIRMWARE_TASMOTA, status |-> "null", version |-> None]}
UpdateEvents == {UpdateEvent(k, s) : k \in FirmwareTypes, s \in Statuses}
FwEvents == VersionEvents \cup NoVersionEvents \cup UpdateEvents

\* one report per source, for the specification that follows several rounds
OneVersionEvents ==
    {VersionEvent(FIRMWARE_TASMOTA, Some(<<"1.9.0", "(", "nspanel", ")">>)),
     VersionEvent(FIRMWARE_BERRYDRIVER, Some(<<"9">>))}
OneHmiReport == {[internalVersion |-> <<"5", "2">>, model |-> "eu"]}

NotifyIds ==
    {STR_UPDATE_NOTIFY_PREFIX \o k : k \in FirmwareTypes}
        \cup {NullStr, <<>>, FIRMWARE_TASMOTA, STR_UPDATE_NOTIFY_PREFIX,
              STR_UPDATE_NOTIFY_PREFIX \o <<"other">>}
NotifyActions == {NullStr, <<>>, <<"yes">>, <<"no">>}

\* responses that carry a version, and responses that do not
TasmotaAnswer == [data |-> [tag_name |-> Some(<<"v", "1.10.0">>)]]
BerryDriverAnswer ==
    [data |-> Some(<<[name |-> "version_of_this_script", value |-> <<"9">>]>>)]
HmiAnswer ==
    [data |-> Some(<<[name |-> "desired_display_firmware_version", value |-> <<"5", "3">>],
                     [name |-> "version", value |-> <<"v", "4.3.1">>]>>)]

TasmotaResponses == {TasmotaAnswer, [data |-> [tag_name |-> None]]}
BerryDriverResponses ==
    {BerryDriverAnswer, [data |-> Some(<<[name |-> "import", value |-> <<>>]>>)]}
HmiResponses ==
    {HmiAnswer,
     [data |-> Some(<<[name |-> "desired_display_firmware_version", value |-> <<"5", "3">>]>>)]}

Answers(k) ==
    CASE k = FIRMWARE_TASMOTA -> {TasmotaAnswer}
      [] k = FIRMWARE_BERRYDRIVER -> {BerryDriverAnswer}
      [] k = FIRMWARE_HMI -> {HmiAnswer}

Responses(k) ==
    CASE k = FIRMWARE_TASMOTA -> TasmotaResponses
      [] k = FIRMWARE_BERRYDRIVER -> BerryDriverResponses
      [] k = FIRMWARE_HMI -> HmiResponses

onLatest(vd, k, response) ==
    CASE k = FIRMWARE_TASMOTA -> onLatestTasmota(vd, response)
      [] k = FIRMWARE_BERRYDRIVER -> onLatestBerryDriver(vd, response)
      [] k = FIRMWARE_HMI -> onLatestHmi(vd, response)

----------------------------------------------------------------------------
\* Page nodes: construction

\* PageOptions of a page node: no options at all, options without maxEntities,
\* or maxEntities set by the page type
PageOptionsSet ==
    {None} \cup {Some(<<>>)} \cup {Some([maxEntities |-> n]) : n \in 0..MaxOption}

\* new PageThermoNode: { pageType: PAGE_TYPE, maxEntities: MAX_ENTITIES }
MAX_ENTITIES == 8
ThermoOptions == Some([maxEntities |-> MAX_ENTITIES])

\* PageThermoConfig: the fields handleInput and generatePage read
ThermoConfigs ==
    [useOwnTempSensor : BOOLEAN, temperatureUnit : {<<"C">>}, targetTemperature : {20}]
DefaultThermoConfig ==
    [useOwnTempSensor |-> TRUE, temperatureUnit |-> <<"C">>, targetTemperature |-> 20]

\* the fields of a page node after its constructor, with options o and
\* configuration c
Constructed(o, c) ==
    /\ isActive = FALSE
    /\ pageData = [entities |-> <<>>]
    /\ options = o
    /\ config = c
    /\ data = [targetTemperature |-> [num |-> c.targetTemperature],
               currentTemperature |-> [nul |-> TRUE],
               status |-> [nul |-> TRUE]]
    /\ pageCache = {}
    /\ emitted = <<>>
    /\ pageInput = [fn |-> "none"]
    /\ generated = {}

----------------------------------------------------------------------------
\* The state machine

InitUpdater ==
    /\ updateInProgress = FALSE
    /\ updateTaskStack = <<>>
    /\ status = StatusNone
    /\ current = [tasmota |-> None, berryDriver |-> None, hmi |-> None]
    /\ latest = [tasmota |-> None, berryDriver |-> None, hmi |-> None]
    /\ autoUpdate \in BOOLEAN
    /\ rounds = <<>>
    /\ fetches = [k \in FirmwareTypes |-> 0]
    /\ sent = <<>>
    /\ notified = <<>>
    /\ settled = None
    /\ taskEntry = None
    /\ lastInput = <<"none">>
    /\ input = [fn |-> "none"]
    /\ output = [none |-> TRUE]

\* the updater of a panel and a thermo page of that panel, after construction
Init == InitUpdater /\ Constructed(ThermoOptions, DefaultThermoConfig)

\* construction with options.autoUpdate = false
InitManual == Init /\ autoUpdate = FALSE

SetTasks(st) ==
    /\ updateInProgress' = st.inProgress
    /\ updateTaskStack' = st.stack
    /\ sent' = st.sent
    /\ taskEntry' = st.entry

SetVersions(vd) ==
    /\ status' = vd.status
    /\ current' = vd.current
    /\ latest' = vd.latest

OnFirmwareEvent(fwEvent) ==
    LET res == onFirmwareEvent(TaskState, VersionData, fwEvent)
    IN  /\ SetTasks(res.st)
        /\ SetVersions(res.vd)
        /\ notified' = <<>>
        /\ settled' = None
        /\ lastInput' = IF fwEvent.event = "update"
                        THEN <<"update", fwEvent.source, fwEvent.status>>
                        ELSE lastInput
        /\ UNCHANGED <<autoUpdate, rounds, fetches, input, output, pageVars>>

OnUpdateNotificationResult(notifyId, action) ==
    /\ Len(updateTaskStack) < MaxStack
    /\ SetTasks(onUpdateNotificationResult(TaskState, notifyId, action))
    /\ notified' = <<>>
    /\ settled' = None
    /\ lastInput' = <<"confirm", notifyId, action>>
    /\ UNCHANGED <<status, current, latest, autoUpdate, rounds, fetches, input, output, pageVars>>

SetHmiVersion(hmiVersion) ==
    /\ SetVersions(setHmiVersion(VersionData, Some(hmiVersion)))
    /\ sent' = <<>>
    /\ notified' = <<>>
    /\ settled' = None
    /\ taskEntry' = None
    /\ UNCHANGED <<updateInProgress, updateTaskStack, autoUpdate, rounds, fetches, lastInput,
                   input, output, pageVars>>

\* checkForUpdates that keeps the flags of the round before
CheckForUpdatesWithin_NoClear(calls) ==
    /\ Len(rounds) < calls
    /\ LET res == waitForDataAcquisition(VersionData, NewRound)
       IN  /\ SetVersions(res.vd)
           /\ rounds' = Append(rounds, res.rd)
           /\ settled' = {[round |-> Len(rounds) + 1, how |-> x.how, value |-> x.value] :
                             x \in res.settled}
           /\ notified' = Callbacks(res, autoUpdate)
    /\ fetches' = [k \in FirmwareTypes |-> fetches[k] + 1]
    /\ sent' = VersionRequests
    /\ taskEntry' = None
    /\ UNCHANGED <<updateInProgress, updateTaskStack, autoUpdate, lastInput, input, output, pageVars>>

\* checkForUpdates: _acquireVersions up to the first, synchronous run of
\* waitForDataAcquisition, then the callbacks if the promise is settled
CheckForUpdatesWithin(calls) ==
    /\ Len(rounds) < calls
    /\ LET res == waitForDataAcquisition([VersionData EXCEPT !.status = StatusNone], NewRound)
       IN  /\ SetVersions(res.vd)
           /\ rounds' = Append(rounds, res.rd)
           /\ settled' = {[round |-> Len(rounds) + 1, how |-> x.how, value |-> x.value] :
                             x \in res.settled}
           /\ notified' = Callbacks(res, autoUpdate)
    /\ fetches' = [k \in FirmwareTypes |-> fetches[k] + 1]
    /\ sent' = VersionRequests
    /\ taskEntry' = None
    /\ UNCHANGED <<updateInProgress, updateTaskStack, autoUpdate, lastInput, input, output, pageVars>>

CheckForUpdates == CheckForUpdatesWithin(MaxRounds)

\* the timer of round r fires: one run of waitForDataAcquisition, then the
\* callbacks if it settled the promise
Poll(r) ==
    /\ rounds[r].timer
    /\ rounds[r].i > -MaxLatePolls
    /\ LET res == waitForDataAcquisition(VersionData,
                      [rounds[r] EXCEPT !.timer = FALSE, !.elapsed = @ + PollIntervalMs])
       IN  /\ SetVersions(res.vd)
           /\ rounds' = [rounds EXCEPT ![r] = res.rd]
           /\ settled' = {[round |-> r, how |-> x.how, value |-> x.value] : x \in res.settled}
           /\ notified' = Callbacks(res, autoUpdate)
    /\ sent' = <<>>
    /\ taskEntry' = None
    /\ UNCHANGED <<updateInProgress, updateTaskStack, autoUpdate, fetches, lastInput,
                   input, output, pageVars>>

\* a request of getLatestVersion is answered
FetchDone(k, response) ==
    /\ fetches[k] > 0
    /\ fetches' = [fetches EXCEPT ![k] = @ - 1]
    /\ SetVersions(onLatest(VersionData, k, response))
    /\ sent' = <<>>
    /\ notified' = <<>>
    /\ settled' = None
    /\ taskEntry' = None
    /\ UNCHANGED <<updateInProgress, updateTaskStack, autoUpdate, rounds, lastInput,
                   input, output, pageVars>>

\* a request of getLatestVersion fails: there is no rejection handler
FetchFailed(k) ==
    /\ fetches[k] > 0
    /\ fetches' = [fetches EXCEPT ![k] = @ - 1]
    /\ sent' = <<>>
    /\ notified' = <<>>
    /\ settled' = None
    /\ taskEntry' = None
    /\ UNCHANGED <<updateInProgress, updateTaskStack, status, current, latest, autoUpdate,
                   rounds, lastInput, input, output, pageVars>>

Next ==
    \/ \E e \in FwEvents : OnFirmwareEvent(e)
    \/ \E n \in NotifyIds, a \in NotifyActions : OnUpdateNotificationResult(n, a)
    \/ \E v \in HmiReports : SetHmiVersion(v)
    \/ CheckForUpdates
    \/ \E r \in 1..Len(rounds) : Poll(r)
    \/ \E k \in FirmwareTypes : \E resp \in Responses(k) : FetchDone(k, resp)
    \/ \E k \in FirmwareTypes : FetchFailed(k)

Spec == Init /\ [][Next]_vars

\* The update queue: firmware events and confirmations, no checkForUpdates
TaskEvents == OneVersionEvents \cup NoVersionEvents \cup UpdateEvents

NextTasks ==
    \/ \E e \in TaskEvents : OnFirmwareEvent(e)
    \/ \E n \in NotifyIds, a \in NotifyActions : OnUpdateNotificationResult(n, a)

SpecTasks == InitManual /\ [][NextTasks]_vars

\* The update queue with a panel that reports the success of every update it
\* was sent: while the latch is set, a success event arrives at last.
SpecDrain ==
    /\ InitManual
    /\ [][NextTasks]_vars
    /\ WF_vars(updateInProgress
                 /\ \E k \in FirmwareTypes : OnFirmwareEvent(UpdateEvent(k, "success")))

\* Acquisition rounds: up to MaxRounds calls of checkForUpdates, one report
\* value per source, automatic updates disabled.  A request is answered with
\* a version or stays unanswered; answers that set no flag are left to
\* SpecCheck.
NextAcq ==
    \/ \E e \in OneVersionEvents : OnFirmwareEvent(e)
    \/ \E v \in OneHmiReport : SetHmiVersion(v)
    \/ CheckForUpdates
    \/ \E r \in 1..Len(rounds) : Poll(r)
    \/ \E k \in FirmwareTypes : \E resp \in Answers(k) : FetchDone(k, resp)

SpecAcq == InitManual /\ [][NextAcq]_vars

\* The first checkForUpdates after start-up, with every report value and both
\* settings of autoUpdate
NextCheck ==
    \/ \E e \in VersionEvents : OnFirmwareEvent(e)
    \/ \E v \in HmiReports : SetHmiVersion(v)
    \/ rounds = <<>> /\ CheckForUpdates
    \/ \E r \in 1..Len(rounds) : Poll(r)
    \/ \E k \in FirmwareTypes : \E resp \in Responses(k) : FetchDone(k, resp)
    \/ \E k \in FirmwareTypes : FetchFailed(k)

SpecCheck == Init /\ [][NextCheck]_vars

\* Overlapping rounds: up to MaxCalls calls of checkForUpdates, each round
\* followed for its first MaxEarlyPolls polls, the tasmota firmware reporting
\* either version
OverlapEvents ==
    {VersionEvent(FIRMWARE_TASMOTA, Some(v)) : v \in TasmotaReports}
        \cup {VersionEvent(FIRMWARE_BERRYDRIVER, Some(<<"9">>))}

NextOverlap ==
    \/ \E e \in OverlapEvents : OnFirmwareEvent(e)
    \/ \E v \in OneHmiReport : SetHmiVersion(v)
    \/ CheckForUpdatesWithin(MaxCalls)
    \/ \E r \in 1..Len(rounds) : rounds[r].polls < MaxEarlyPolls /\ Poll(r)
    \/ \E k \in FirmwareTypes : \E resp \in Answers(k) : FetchDone(k, resp)

SpecOverlap == InitManual /\ [][NextOverlap]_vars

\* Version reports only: every form of the tasmota version string
ParenReports ==
    {<<"1.9.0">>, <<"1.10.0", "(", "nspanel", ")">>, <<"13.1.0", "(", "some-build", ")">>,
     <<"1.9.0", "(", "a", ")", "(", "b", ")">>, <<"14.2.0", "(">>, <<"(", "nspanel", ")">>,
     <<"(">>, <<>>}

ReportEvents ==
    {VersionEvent(FIRMWARE_TASMOTA, Some(v)) : v \in ParenReports}
        \cup {VersionEvent(FIRMWARE_BERRYDRIVER, Some(v)) : v \in BerryDriverReports}
        \cup {VersionEvent(FIRMWARE_TASMOTA, None), VersionEvent(FIRMWARE_BERRYDRIVER, None)}

NextReports ==
    \/ \E e \in ReportEvents : OnFirmwareEvent(e)
    \/ \E v \in HmiReports : SetHmiVersion(v)

SpecReports == Init /\ [][NextReports]_vars

\* Acquisition while updates are confirmed and carried out: the panel reports
\* its versions, the latest versions are never fetched
NextQueued ==
    \/ \E e \in OneVersionEvents : OnFirmwareEvent(e)
    \/ OnFirmwareEvent(UpdateEvent(FIRMWARE_TASMOTA, "success"))
    \/ \E k \in FirmwareTypes :
          OnUpdateNotificationResult(STR_UPDATE_NOTIFY_PREFIX \o k, STR_LUI_NOTIFY_ACTION_YES)
    \/ CheckForUpdates
    \/ \E r \in 1..Len(rounds) : Poll(r)

SpecQueued == Init /\ [][NextQueued]_vars

\* The first checkForUpdates with the user answering 'yes' to the
\* notification that has just been shown; notify ids that name no update are
\* confirmed as well
NextRoundTrip ==
    \/ \E e \in VersionEvents : OnFirmwareEvent(e)
    \/ \E v \in HmiReports : SetHmiVersion(v)
    \/ rounds = <<>> /\ CheckForUpdates
    \/ \E r \in 1..Len(rounds) : Poll(r)
    \/ \E k \in FirmwareTypes : \E resp \in Answers(k) : FetchDone(k, resp)
    \/ \E n \in 1..Len(notified) :
          OnUpdateNotificationResult(notified[n].notifyId, STR_LUI_NOTIFY_ACTION_YES)
    \/ \E id \in NotifyIds \ {STR_UPDATE_NOTIFY_PREFIX \o k : k \in FirmwareTypes} :
          OnUpdateNotificationResult(id, STR_LUI_NOTIFY_ACTION_YES)

SpecRoundTrip == InitManual /\ [][NextRoundTrip]_vars

----------------------------------------------------------------------------
\* NSPanelMessageParser.  A string is a sequence of tokens (single characters
\* where digits, letters or separators matter); a value of another JavaScript
\* type is a record with one field that names the type.

Undefined == <<"\\undefined">>
Undef == [undef |-> TRUE]
NaN == [nan |-> TRUE]
Num(n) == [num |-> n]
Bool(b) == [bool |-> b]

\* JSON values: an object is a function from its keys
JObj(o) == [obj |-> o]
JStr(t) == [str |-> t]
JNum(n) == [num |-> n]
JNull == [nul |-> TRUE]
JArr(a) == [arr |-> a]

IsObj(j) == DOMAIN j = {"obj"}
IsStr(j) == DOMAIN j = {"str"}
IsArr(j) == DOMAIN j = {"arr"}
IsNullish(j) == DOMAIN j = {"nul"}

\* the outcome of a call
Return(v) == [value |-> v]
Throw(e) == [threw |-> e]
Threw(r) == DOMAIN r = {"threw"}

\* obj.f = v on an object that may not have the field yet
SetField(e, f, v) == [x \in DOMAIN e \cup {f} |-> IF x = f THEN v ELSE e[x]]
\* e.f === undefined
Absent(e, f) == f \notin DOMAIN e \/ e[f] = Undef

\* parts[k], k counted from 0
Part(parts, k) == IF k < Len(parts) THEN parts[k + 1] ELSE Undefined

\* String.prototype.split(sep)
RECURSIVE Split(_, _)
Split(s, sep) ==
    IF \E n \in 1..Len(s) : s[n] = sep
    THEN LET n == CHOOSE k \in 1..Len(s) : s[k] = sep /\ \A m \in 1..(k - 1) : s[m] # sep
         IN  <<SubSeq(s, 1, n - 1)>> \o Split(SubSeq(s, n + 1, Len(s)), sep)
    ELSE <<s>>

Digits == {"0", "1", "2", "3", "4", "5", "6", "7", "8", "9"}

RECURSIVE Decimal(_)
Decimal(s) == IF s = <<>> THEN 0 ELSE 10 * Decimal(Front(s)) + (CharCode(Last(s)) - 48)

\* Number(s) for a string of the model: the empty string is 0, a string of
\* digits its decimal value, undefined and every other string NaN
Number(s) ==
    IF s = Undefined THEN NaN
    ELSE IF \A n \in 1..Len(s) : s[n] \in Digits THEN Num(Decimal(s))
    ELSE NaN

\* NSPanelMessageUtils.toBoolean
TrueLike == {<<"1">>, <<"true">>, <<"on">>}
toBoolean(s) == s \in TrueLike

\* NSPanelMessageUtils.hasProperty(input, property)
hasProperty(j, property) == IsObj(j) /\ property \in DOMAIN j.obj

\* NSPanelColorUtils.hmiPosToColor(x, y): the colour tuple of a position
hmiPosToColor(x, y) == <<[rgb |-> <<x, y>>], [hsv |-> <<x, y>>]>>

STR_LUI_EVENT_STARTUP == <<"startup">>
STR_LUI_EVENT_SLEEPREACHED == <<"sleepReached">>
STR_LUI_EVENT_BUTTONPRESS2 == <<"buttonPress2">>
STR_LUI_EVENT_PAGEOPENDETAIL == <<"pageOpenDetail">>

\* case 'button' that leaves the source as parts[2]
normalizeButton_SourceKept(eventArgs, parts) ==
    SetField(SetField(SetField(eventArgs, "source", Part(parts, 2)),
                      "event2", Part(parts, 2)),
             "entityId", Part(parts, 2))

\* parseEvent, case 'button'
normalizeButton(eventArgs, parts) ==
    SetField(SetField(SetField(eventArgs, "source", Part(parts, 3)),
                      "event2", Part(parts, 2)),
             "entityId", Part(parts, 2))

\* case 'OnOff' that stores false as well
normalizeOnOff_FalseKept(eventArgs, parts) ==
    SetField(SetField(SetField(eventArgs, "source", Part(parts, 2)),
                      "entityId", Part(parts, 2)),
             "active", Bool(toBoolean(Part(parts, 4))))

\* parseEvent, case 'OnOff'
normalizeOnOff(eventArgs, parts) ==
    SetField(SetField(SetField(eventArgs, "source", Part(parts, 2)),
                      "entityId", Part(parts, 2)),
             "active", IF toBoolean(Part(parts, 4)) THEN Bool(TRUE) ELSE Undef)

\* parseEvent, case 'number-set'
normalizeNumberSet(eventArgs, parts) ==
    LET e == SetField(SetField(eventArgs, "entityId", Part(parts, 2)),
                      "source", Part(parts, 2))
        n == Number(Part(parts, 4))
    IN  IF n = NaN THEN SetField(e, "data", JStr(Part(parts, 4)))
        ELSE SetField(e, "value", n)

\* case 'colorWheel' converting a position given by two numbers only
normalizeColorWheel_TwoTokens(eventArgs, parts) ==
    LET lightEventArgs == SetField(eventArgs, "event2", <<"color">>)
        colorDataStr == Part(parts, 4)
        colorDataArr == IF colorDataStr = Undefined \/ stringIsNullOrEmpty(colorDataStr)
                        THEN <<>>
                        ELSE Split(colorDataStr, "|")
    IN  IF Len(colorDataArr) = 2
        THEN LET colorData == [n \in 1..2 |-> Number(colorDataArr[n])]
                 colorTuple == hmiPosToColor(colorData[1], colorData[2])
             IN  SetField(SetField(lightEventArgs, "rgb", colorTuple[1]), "hsv", colorTuple[2])
        ELSE lightEventArgs

\* parseEvent, case 'colorWheel'
normalizeColorWheel(eventArgs, parts) ==
    LET lightEventArgs == SetField(eventArgs, "event2", <<"color">>)
        colorDataStr == Part(parts, 4)
        colorDataArr == IF colorDataStr = Undefined \/ stringIsNullOrEmpty(colorDataStr)
                        THEN <<>>
                        ELSE Split(colorDataStr, "|")
    IN  IF Len(colorDataArr) = 3
        THEN LET colorData == [n \in 1..3 |-> Number(colorDataArr[n])]
                 colorTuple == hmiPosToColor(colorData[1], colorData[2])
             IN  SetField(SetField(lightEventArgs, "rgb", colorTuple[1]), "hsv", colorTuple[2])
        ELSE lightEventArgs

\* the trailing-field rule applied whatever the number of fields
trailingField_AnyCount(eventArgs, parts) ==
    LET n == Number(Part(parts, 4))
    IN  IF n = NaN THEN SetField(eventArgs, "data", JStr(Part(parts, 4)))
        ELSE SetField(eventArgs, "value", n)

\* parseEvent, the statement after the inner switch
trailingField(eventArgs, parts) ==
    IF Len(parts) = 5
    THEN LET n == Number(Part(parts, 4))
         IN  IF n = NaN THEN SetField(eventArgs, "data", JStr(Part(parts, 4)))
             ELSE SetField(eventArgs, "value", n)
    ELSE eventArgs

\* parseEvent, case buttonPress2
parseButtonPress2(eventArgs, parts) ==
    LET e == SetField(eventArgs, "event2", Part(parts, 3))
        normalized ==
            CASE Part(parts, 3) = <<"button">> -> normalizeButton(e, parts)
              [] Part(parts, 3) = <<"OnOff">> -> normalizeOnOff(e, parts)
              [] Part(parts, 3) = <<"number-set">> -> normalizeNumberSet(e, parts)
              [] Part(parts, 3) = <<"colorWheel">> -> normalizeColorWheel(e, parts)
              [] Part(parts, 3) = <<"positionSlider">> -> SetField(e, "event2", <<"position">>)
              [] Part(parts, 3) = <<"tiltSlider">> -> SetField(e, "event2", <<"tilt">>)
              [] OTHER -> e
    IN  trailingField(normalized, parts)

\* case startup that leaves the source as it is
parseStartup_SourceKept(eventArgs, parts) ==
    SetField(eventArgs, "hmiVersion", [version |-> NullStr,
                                       internalVersion |-> Part(parts, 2),
                                       model |-> Part(parts, 3)])

\* parseEvent, case startup
parseStartup(eventArgs, parts) ==
    SetField(SetField(eventArgs, "source", <<"hmi">>),
             "hmiVersion", [version |-> NullStr,
                            internalVersion |-> Part(parts, 2),
                            model |-> Part(parts, 3)])

\* the date field (new Date()) is left out of every event
parseEvent(parts) ==
    LET eventArgs == [type |-> "event", event |-> Part(parts, 1), source |-> Part(parts, 2)]
    IN  CASE Part(parts, 1) = STR_LUI_EVENT_STARTUP -> parseStartup(eventArgs, parts)
          [] Part(parts, 1) = STR_LUI_EVENT_SLEEPREACHED -> eventArgs
          [] Part(parts, 1) = STR_LUI_EVENT_BUTTONPRESS2 -> parseButtonPress2(eventArgs, parts)
          [] Part(parts, 1) = STR_LUI_EVENT_PAGEOPENDETAIL ->
                SetField(eventArgs, "entityId", Part(parts, 3))
          [] OTHER -> SetField(eventArgs, "data", [raw |-> SubSeq(parts, 3, Len(parts))])

parseCustomMessage(parts) ==
    IF Part(parts, 0) = <<"event">>
    THEN parseEvent(parts)
    ELSE [type |-> "event", event |-> <<>>, event2 |-> <<>>, source |-> <<>>]

\* the result is an event or null
parseNluiDriverEvent(j) ==
    IF hasProperty(j, "nlui_driver_version") /\ ~IsNullish(j.obj.nlui_driver_version)
    THEN Some([type |-> "fw", source |-> FIRMWARE_BERRYDRIVER, event |-> <<"version">>,
               version |-> j.obj.nlui_driver_version])
    ELSE None

\* JSON.parse of a payload string.  A payload is the text of the string and
\* the JSON value it denotes, if it denotes one.
JSON_parse(payloadStr) ==
    IF payloadStr.json = None THEN Throw("SyntaxError") ELSE Return(Get(payloadStr.json))

\* the try block of parse: what it assigns to result, or what it throws.
\* 'k' in temp throws for a value that is not an object; temp.CustomRecv.split
\* throws for a value that has no split method.
parseTry(payloadStr) ==
    LET parsed == JSON_parse(payloadStr)
    IN  IF Threw(parsed) THEN parsed
        ELSE LET temp == parsed.value
             IN  IF ~(IsObj(temp) \/ IsArr(temp)) THEN Throw("TypeError")
                 ELSE IF hasProperty(temp, "CustomRecv")
                 THEN IF IsStr(temp.obj.CustomRecv)
                      THEN Return(Some(parseCustomMessage(Split(temp.obj.CustomRecv.str, ","))))
                      ELSE Throw("TypeError")
                 ELSE IF hasProperty(temp, "nlui_driver_version")
                 THEN Return(parseNluiDriverEvent(temp))
                 ELSE Return(Some([type |-> "unknown", source |-> <<>>, event |-> <<>>,
                                   data |-> temp]))

\* the catch block of parse: result.data = payloadStr on the value result has
\* when the try block is left by an exception
parseCatch(result, payloadStr) ==
    IF result = None
    THEN Throw("TypeError")
    ELSE Return(Some(SetField(Get(result), "data", JStr(payloadStr.text))))

\* result is assigned only when the right-hand side has been evaluated, so
\* it still is null when the catch block runs
parse(payloadStr) ==
    LET tried == parseTry(payloadStr)
    IN  IF Threw(tried) THEN parseCatch(None, payloadStr) ELSE tried

\* String.prototype.toLowerCase, on the letters of the alphabet
UpperCase == <<"A", "B", "C", "D", "E", "F", "G", "H", "I", "J", "K", "L", "M",
               "N", "O", "P", "Q", "R", "S", "T", "U", "V", "W", "X", "Y", "Z">>
LowerCase == <<"a", "b", "c", "d", "e", "f", "g", "h", "i", "j", "k", "l", "m",
               "n", "o", "p", "q", "r", "s", "t", "u", "v", "w", "x", "y", "z">>
toLowerCase(s) ==
    [n \in 1..Len(s) |->
        IF \E k \in 1..26 : UpperCase[k] = s[n]
        THEN LowerCase[CHOOSE k \in 1..26 : UpperCase[k] = s[n]]
        ELSE s[n]]

\* actionString is the value the caller read from the message: toLowerCase
\* exists on strings only, the call throws on every other value
actionStringToNumber(actionString) ==
    IF ~IsStr(actionString) THEN Throw("TypeError")
    ELSE LET action == toLowerCase(actionString.str)
         IN  Return(CASE action = <<"s", "i", "n", "g", "l", "e">> -> Num(1)
                      [] action = <<"d", "o", "u", "b", "l", "e">> -> Num(2)
                      [] action = <<"t", "r", "i", "p", "l", "e">> -> Num(3)
                      [] action = <<"q", "u", "a", "d">> -> Num(4)
                      [] action = <<"p", "e", "n", "t", "a">> -> Num(5)
                      [] OTHER -> Undef)

\* the characters of the property names of a hardware message
PropertyName ==
    [POWER1 |-> <<"P", "O", "W", "E", "R", "1">>, POWER2 |-> <<"P", "O", "W", "E", "R", "2">>,
     Button1 |-> <<"B", "u", "t", "t", "o", "n", "1">>,
     Button2 |-> <<"B", "u", "t", "t", "o", "n", "2">>]

convertToRelayEvent(j, property) ==
    [type |-> "hw", event |-> <<"relay">>, event2 |-> <<"state">>,
     source |-> toLowerCase(PropertyName[property]),
     active |-> Bool(j.obj[property] = JStr(<<"ON">>))]

\* v[property]: throws on null, is undefined on a value without the property
GetProperty(v, property) ==
    IF IsNullish(v) THEN Throw("TypeError")
    ELSE IF IsObj(v) /\ property \in DOMAIN v.obj THEN Return(v.obj[property])
    ELSE Return(Undef)

\* the event, or what the evaluation of value throws
convertToButtonEvent(j, property) ==
    LET action == GetProperty(j.obj[property], "Action")
        value == IF Threw(action) THEN action ELSE actionStringToNumber(action.value)
    IN  IF Threw(value) THEN value
        ELSE Return([type |-> "hw", event |-> <<"button">>, event2 |-> <<"press">>,
                     source |-> toLowerCase(PropertyName[property]),
                     value |-> value.value])

\* the array of events, or what a button conversion throws
parseHardwareEvent(j) ==
    LET relay(property) ==
            IF hasProperty(j, property) THEN <<convertToRelayEvent(j, property)>> ELSE <<>>
        button(property) ==
            IF hasProperty(j, property) THEN <<convertToButtonEvent(j, property)>> ELSE <<>>
        buttons == button("Button1") \o button("Button2")
    IN  IF \E n \in 1..Len(buttons) : Threw(buttons[n])
        THEN buttons[CHOOSE n \in 1..Len(buttons) :
                        Threw(buttons[n]) /\ \A m \in 1..(n - 1) : ~Threw(buttons[m])]
        ELSE LET result == relay("POWER1") \o relay("POWER2")
                               \o [n \in 1..Len(buttons) |-> buttons[n].value]
             IN  Return(IF Len(result) = 0
                        THEN <<[type |-> "hw", event |-> <<>>, source |-> <<>>, data |-> j]>>
                        ELSE result)

STR_TASMOTA_MSG_UPGRADE == "STR_TASMOTA_MSG_UPGRADE"
STR_TASMOTA_UPGRADE_SUCCESSFUL == <<"STR_TASMOTA_UPGRADE_SUCCESSFUL">>
STR_TASMOTA_UPGRADE_FAILED == <<"STR_TASMOTA_UPGRADE_FAILED">>
STR_BERRYDRIVER_CMD_UPDATEDRIVER == "STR_BERRYDRIVER_CMD_UPDATEDRIVER"
STR_BERRYDRIVER_CMD_FLASHNEXTION == "STR_BERRYDRIVER_CMD_FLASHNEXTION"
STR_LUI_CMD_SUCCESS == <<"STR_LUI_CMD_SUCCESS">>

\* NSPanelUtils.isString
isString(v) == IsStr(v)

\* String.prototype.startsWith(prefix)
startsWith(s, prefix) ==
    Len(s) >= Len(prefix) /\ SubSeq(s, 1, Len(prefix)) = prefix

\* String.prototype.indexOf(t): the first index, counted from 0, or -1
indexOf(s, t) ==
    LET at(k) == k + Len(t) <= Len(s) /\ SubSeq(s, k + 1, k + Len(t)) = t
    IN  IF \E k \in 0..Len(s) : at(k)
        THEN CHOOSE k \in 0..Len(s) : at(k) /\ \A m \in 0..(k - 1) : ~at(m)
        ELSE -1

\* String.prototype.substring(start), start not negative
substring(s, start) == SubSeq(s, start + 1, Len(s))

\* the result is an event or null
parseTasmotaUpgradeEvent(j) ==
    IF hasProperty(j, STR_TASMOTA_MSG_UPGRADE)
    THEN LET statusValue == j.obj[STR_TASMOTA_MSG_UPGRADE]
         IN  IF isString(statusValue) /\ ~stringIsNullOrEmpty(statusValue.str)
             THEN LET statusResult ==
                          IF startsWith(statusValue.str, STR_TASMOTA_UPGRADE_SUCCESSFUL)
                          THEN <<"success">> ELSE <<"failed">>
                      result == [type |-> "fw", source |-> FIRMWARE_TASMOTA,
                                 event |-> <<"update">>, status |-> statusResult]
                  IN  IF statusResult = <<"failed">>
                      THEN Some(SetField(result, "statusMsg",
                                    substring(statusValue.str,
                                        indexOf(statusValue.str, STR_TASMOTA_UPGRADE_FAILED)
                                            + Len(STR_TASMOTA_UPGRADE_FAILED) + 1)))
                      ELSE Some(result)
             ELSE None
    ELSE None

\* the result is an event or null
parseBerryDriverUpdateEvent(j) ==
    LET key == IF hasProperty(j, STR_BERRYDRIVER_CMD_UPDATEDRIVER)
               THEN Some(STR_BERRYDRIVER_CMD_UPDATEDRIVER)
               ELSE IF hasProperty(j, STR_BERRYDRIVER_CMD_FLASHNEXTION)
               THEN Some(STR_BERRYDRIVER_CMD_FLASHNEXTION)
               ELSE None
        source == IF hasProperty(j, STR_BERRYDRIVER_CMD_UPDATEDRIVER)
                  THEN Some(FIRMWARE_BERRYDRIVER)
                  ELSE IF hasProperty(j, STR_BERRYDRIVER_CMD_FLASHNEXTION)
                  THEN Some(FIRMWARE_HMI)
                  ELSE None
    IN  IF key # None /\ source # None
        THEN LET cmdResult == j.obj[Get(key)]
             IN  Some([type |-> "fw", source |-> Get(source), event |-> <<"update">>,
                       status |-> IF JStr(STR_LUI_CMD_SUCCESS) = cmdResult
                                  THEN <<"success">> ELSE NullStr])
        ELSE None

----------------------------------------------------------------------------
\* Decoder inputs

\* Array.prototype.join(sep) on strings
RECURSIVE Join(_, _)
Join(fields, sep) ==
    IF fields = <<>> THEN <<>>
    ELSE IF Len(fields) = 1 THEN fields[1]
    ELSE fields[1] \o <<sep>> \o Join(Tail(fields), sep)

EventNames ==
    {STR_LUI_EVENT_STARTUP, STR_LUI_EVENT_SLEEPREACHED, STR_LUI_EVENT_BUTTONPRESS2,
     STR_LUI_EVENT_PAGEOPENDETAIL, <<"pageOpen">>}
ButtonTypes ==
    {<<"button">>, <<"OnOff">>, <<"number-set">>, <<"colorWheel">>, <<"positionSlider">>,
     <<"tiltSlider">>, <<"up">>}
TrailingFields ==
    {<<"1">>, <<"0">>, <<>>, <<"true">>, <<"1", "0">>, <<"1", "2", "0", "|", "8", "0">>,
     <<"1", "2", "0", "|", "8", "0", "|", "0">>, <<"1", "2", "0", "|", "8", "0", "|", "0", "|", "1">>}

\* the field lists of CustomRecv messages: of 4, 5 and 6 fields for
\* buttonPress2, of 1 to 4 fields otherwise
CommaFields ==
    {<<<<"event">>, STR_LUI_EVENT_BUTTONPRESS2, <<"light.kitchen">>, b>> : b \in ButtonTypes}
        \cup {<<<<"event">>, STR_LUI_EVENT_BUTTONPRESS2, <<"light.kitchen">>, b, t>> :
                 b \in ButtonTypes, t \in TrailingFields}
        \cup {<<<<"event">>, STR_LUI_EVENT_BUTTONPRESS2, <<"light.kitchen">>, b, t, <<"x">>>> :
                 b \in {<<"number-set">>, <<"OnOff">>, <<"up">>}, t \in {<<"3">>, <<"abc">>}}
        \cup {<<<<"event">>, n, <<"5", "2">>, <<"eu">>>> : n \in EventNames}
        \cup {<<<<"event">>, n>> : n \in EventNames}
        \cup {<<<<"event">>>>, <<<<>>>>, <<<<"pageType">>, <<"cardEntities">>>>,
              <<<<"startup">>, <<"5", "2">>, <<"eu">>>>}

CustomRecvPayload(fields) ==
    [text |-> <<"{\"CustomRecv\":\"">> \o Join(fields, ",") \o <<"\"}">>,
     json |-> Some(JObj([CustomRecv |-> JStr(Join(fields, ","))]))]

\* payloads that are no CustomRecv message: not JSON, JSON that is no object,
\* objects without or with an unusable CustomRecv, driver version reports
OtherPayloads ==
    {[text |-> <<"{\"CustomRecv\":">>, json |-> None],
     [text |-> <<>>, json |-> None],
     [text |-> <<"5">>, json |-> Some(JNum(5))],
     [text |-> <<"\"abc\"">>, json |-> Some(JStr(<<"abc">>))],
     [text |-> <<"null">>, json |-> Some(JNull)],
     [text |-> <<"[]">>, json |-> Some(JArr(<<>>))],
     [text |-> <<"{}">>, json |-> Some(JObj(<<>>))],
     [text |-> <<"{\"Time\":1}">>, json |-> Some(JObj([Time |-> JNum(1)]))],
     [text |-> <<"{\"CustomRecv\":5}">>, json |-> Some(JObj([CustomRecv |-> JNum(5)]))],
     [text |-> <<"{\"CustomRecv\":null}">>, json |-> Some(JObj([CustomRecv |-> JNull]))],
     [text |-> <<"{\"nlui_driver_version\":\"9\"}">>,
      json |-> Some(JObj([nlui_driver_version |-> JStr(<<"9">>)]))],
     [text |-> <<"{\"nlui_driver_version\":9}">>,
      json |-> Some(JObj([nlui_driver_version |-> JNum(9)]))],
     [text |-> <<"{\"nlui_driver_version\":null}">>,
      json |-> Some(JObj([nlui_driver_version |-> JNull]))]}

Payloads == {CustomRecvPayload(f) : f \in CommaFields} \cup OtherPayloads

\* every letter-casing of a word
RECURSIVE Casings(_)
Casings(word) ==
    IF word = <<>> THEN {<<>>}
    ELSE {<<c>> \o rest : c \in {Head(word), toLowerCase(<<Head(word)>>)[1]},
                          rest \in Casings(Tail(word))}

ActionNames ==
    {<<"S", "I", "N", "G", "L", "E">>, <<"D", "O", "U", "B", "L", "E">>,
     <<"T", "R", "I", "P", "L", "E">>, <<"Q", "U", "A", "D">>, <<"P", "E", "N", "T", "A">>}

\* the arguments of actionStringToNumber: the casings of the five names,
\* other strings, and what a message without a string Action gives
ActionStrings ==
    {JStr(a) : a \in UNION {Casings(w) : w \in ActionNames}}
        \cup {JStr(<<>>), JStr(<<"h", "o", "l", "d">>), JStr(<<"s", "i", "n", "g", "l">>),
              JStr(<<"s", "i", "n", "g", "l", "e", "s">>), JStr(<<"0">>), JStr(<<"1">>),
              JStr(<<"C", "L", "E", "A", "R">>)}
        \cup {Undef, JNull, JNum(1)}

\* the values of the four fields of a hardware message
HardwareValues ==
    [POWER1 |-> {JStr(<<"ON">>), JStr(<<"OFF">>)},
     POWER2 |-> {JStr(<<"ON">>), JStr(<<"on">>)},
     Button1 |-> {JObj([Action |-> JStr(<<"S", "I", "N", "G", "L", "E">>)]),
                  JObj([Action |-> JStr(<<"h", "o", "l", "d">>)]),
                  JObj(<<>>)},
     Button2 |-> {JObj([Action |-> JStr(<<"D", "o", "u", "b", "l", "e">>)]), JNull},
     Time |-> {JNum(1)}]

\* the messages with any of the four fields, and with none of them
HardwareInputs ==
    UNION {{JObj(o) : o \in {f \in [present -> UNION {HardwareValues[k] : k \in present}] :
                                \A k \in present : f[k] \in HardwareValues[k]}} :
           present \in SUBSET DOMAIN HardwareValues}

\* upgrade results and command echoes
UpgradeInputs ==
    {JObj([STR_TASMOTA_MSG_UPGRADE |-> v]) :
        v \in {JStr(STR_TASMOTA_UPGRADE_SUCCESSFUL),
               JStr(STR_TASMOTA_UPGRADE_SUCCESSFUL \o <<" ", "restarting">>),
               JStr(STR_TASMOTA_UPGRADE_FAILED \o <<" ", "not enough space">>),
               JStr(<<"x">> \o STR_TASMOTA_UPGRADE_SUCCESSFUL),
               JStr(<<>>), JNum(1), JNull}}
        \cup {JObj([c \in {cmd} |-> v]) :
                 cmd \in {STR_BERRYDRIVER_CMD_UPDATEDRIVER, STR_BERRYDRIVER_CMD_FLASHNEXTION},
                 v \in {JStr(STR_LUI_CMD_SUCCESS), JStr(STR_LUI_CMD_SUCCESS \o <<"x">>),
                        JStr(<<"Failed">>), JStr(<<>>), JNum(0), JNull}}
        \cup {JObj([STR_BERRYDRIVER_CMD_UPDATEDRIVER |-> JStr(<<"Failed">>),
                    STR_BERRYDRIVER_CMD_FLASHNEXTION |-> JStr(STR_LUI_CMD_SUCCESS)]),
              JObj(<<>>), JObj([Time |-> JNum(1)])}

----------------------------------------------------------------------------
\* Decoder calls

\* A call leaves its argument in input and its outcome in output, under the
\* name of the function called.
Parse(payloadStr) ==
    /\ input' = [fn |-> "parse", arg |-> payloadStr]
    /\ output' = [parse |-> parse(payloadStr)]
    /\ UNCHANGED <<updaterVars, pageVars>>

ActionStringToNumber(actionString) ==
    /\ input' = [fn |-> "actionStringToNumber", arg |-> actionString]
    /\ output' = [actionStringToNumber |-> actionStringToNumber(actionString)]
    /\ UNCHANGED <<updaterVars, pageVars>>

ParseHardwareEvent(j) ==
    /\ input' = [fn |-> "parseHardwareEvent", arg |-> j]
    /\ output' = [parseHardwareEvent |-> parseHardwareEvent(j)]
    /\ UNCHANGED <<updaterVars, pageVars>>

ParseTasmotaUpgradeEvent(j) ==
    /\ input' = [fn |-> "parseTasmotaUpgradeEvent", arg |-> j]
    /\ output' = [parseTasmotaUpgradeEvent |-> Return(parseTasmotaUpgradeEvent(j))]
    /\ UNCHANGED <<updaterVars, pageVars>>

ParseBerryDriverUpdateEvent(j) ==
    /\ input' = [fn |-> "parseBerryDriverUpdateEvent", arg |-> j]
    /\ output' = [parseBerryDriverUpdateEvent |-> Return(parseBerryDriverUpdateEvent(j))]
    /\ UNCHANGED <<updaterVars, pageVars>>

NextDecoder ==
    \/ \E p \in Payloads : Parse(p)
    \/ \E a \in ActionStrings : ActionStringToNumber(a)
    \/ \E j \in HardwareInputs : ParseHardwareEvent(j)
    \/ \E j \in UpgradeInputs : ParseTasmotaUpgradeEvent(j)
    \/ \E j \in UpgradeInputs : ParseBerryDriverUpdateEvent(j)

SpecDecoder == InitManual /\ [][NextDecoder]_vars

----------------------------------------------------------------------------
\* PageNodeBase.  A message is a record with a payload and, unless the sender
\* left it out, a topic; an emission is the name of the emitted event.

STR_MSG_TOPIC_EVENT == <<"event">>
STR_MSG_TOPIC_DATA == <<"data">>

\* an InputHandlingResult
InputHandlingResult(handled) == JObj([handled |-> Bool(handled)])

\* ToBoolean(v) of JavaScript for booleans and objects: an object is true,
\* whatever it holds
Truthy(v) == IF DOMAIN v = {"bool"} THEN v.bool ELSE IsObj(v)

\* Array.prototype.slice(0, end) for end >= 0
Slice(a, end) == SubSeq(a, 1, IF end < Len(a) THEN end ELSE Len(a))

\* NSPanelMessageUtils.convertToEntityItemData(item): the entity data of an
\* item of a 'data' message
convertToEntityItemData(item) ==
    [entityId |-> IF hasProperty(item, "entityId") THEN item.obj.entityId ELSE Undef]

\* this.options?.maxEntities ?? 0
maxEntitiesOrZero(o) ==
    IF o # None /\ "maxEntities" \in DOMAIN Get(o) THEN Get(o).maxEntities ELSE 0

\* PageNodeBase.requestUpdate: the emissions em of the handler so far, extended
requestUpdate(active, em) == IF active THEN Append(em, "page:update") ELSE em

\* PageNodeBase.handleInput, which a page type overrides.  h is what the
\* override does with the message: "unhandled" is also the default of the
\* base class
HandleInputOutcomes == {"unhandled", "handled", "threw"}
handleInput(h) ==
    IF h = "threw" THEN Throw("Error") ELSE Return(InputHandlingResult(h = "handled"))

\* PageNodeBase.handleDataInputInternal: the page data pd after the message
handleDataInputInternal_Append(pd, o, msg) ==
    LET entityInputData == IF IsArr(msg.payload) THEN msg.payload.arr ELSE <<msg.payload>>
        result == [n \in 1..Len(entityInputData) |-> convertToEntityItemData(entityInputData[n])]
    IN  [result |-> InputHandlingResult(TRUE),
         pageData |-> [pd EXCEPT !.entities = pd.entities \o Slice(result, maxEntitiesOrZero(o))]]

handleDataInputInternal(pd, o, msg) ==
    LET entityInputData == IF IsArr(msg.payload) THEN msg.payload.arr ELSE <<msg.payload>>
        result == [n \in 1..Len(entityInputData) |-> convertToEntityItemData(entityInputData[n])]
    IN  [result |-> InputHandlingResult(TRUE),
         pageData |-> [pd EXCEPT !.entities = Slice(result, maxEntitiesOrZero(o))]]

\* PageNodeBase.handleInputInternal
handleInputInternal(pd, o, msg, h) ==
    LET called == handleInput(h)
        inputResult == IF Threw(called) THEN InputHandlingResult(FALSE) ELSE called.value
    IN  IF inputResult.obj.handled = Bool(FALSE) /\ msg.topic = STR_MSG_TOPIC_DATA
        THEN handleDataInputInternal(pd, o, msg)
        ELSE [result |-> inputResult, pageData |-> pd]

\* config.events of the page: the event mappings by event name
ConfiguredEvents ==
    [e \in {<<"nav.next">>, <<"hw", ".", "button1">>, <<"light">>, <<"scene">>} |->
        CASE e = <<"nav.next">> -> [t |-> "page", value |-> <<"page2">>]
          [] e = <<"hw", ".", "button1">> -> [t |-> "relay1", value |-> <<"toggle">>]
          [] e = <<"light">> -> [t |-> "msg", value |-> <<"payload">>]
          [] e = <<"scene">> -> [t |-> "other", value |-> <<>>]]

\* PageNodeBase.handleConfiguredEvent: whether the event was handled, and
\* the emissions
handleConfiguredEvent(cfgEvent, em) ==
    CASE cfgEvent.t = "page" -> [handled |-> TRUE, emitted |-> Append(em, "nav:pageId")]
      [] cfgEvent.t \in {"relay1", "relay2"} ->
            [handled |-> TRUE, emitted |-> Append(em, "page:cmd")]
      [] cfgEvent.t = "msg" -> [handled |-> TRUE, emitted |-> em]
      [] OTHER -> [handled |-> FALSE, emitted |-> em]

\* PageNodeBase.handleUiEventInternal, with the preHandleUiEvent of the base
\* class
handleUiEventInternal(eventArgs, em) ==
    LET event2 == IF eventArgs.type = <<"hw">>
                  THEN eventArgs.type \o <<".">> \o eventArgs.source
                  ELSE eventArgs.event2
    IN  IF event2 \in DOMAIN ConfiguredEvents
        THEN handleConfiguredEvent(ConfiguredEvents[event2], em)
        ELSE [handled |-> FALSE, emitted |-> em]

\* PageNodeBase.onInput: the page data, the emissions and the result of
\* handleInputInternal, where it was called
onInput(active, pd, o, msg, h) ==
    IF "topic" \notin DOMAIN msg
    THEN [pageData |-> pd, emitted |-> <<>>, result |-> None]
    ELSE IF msg.topic = STR_MSG_TOPIC_EVENT
    THEN LET ui == handleUiEventInternal(msg.payload, <<>>)
         IN  IF ~ui.handled
             THEN LET r == handleInputInternal(pd, o, msg, h)
                  IN  [pageData |-> r.pageData, emitted |-> ui.emitted,
                       result |-> Some(r.result)]
             ELSE [pageData |-> pd, emitted |-> ui.emitted, result |-> None]
    ELSE LET handled == handleInputInternal(pd, o, msg, h)
         IN  [pageData |-> handled.pageData,
              emitted |-> IF Truthy(handled.result)
                          THEN requestUpdate(active, <<>>) ELSE <<>>,
              result |-> Some(handled.result)]

\* the messages a page node receives
EntityItems == {JObj([entityId |-> JStr(<<"e1">>)]), JObj([entityId |-> JStr(<<"e2">>)])}
DataPayloads ==
    EntityItems
    \cup {JArr(a) : a \in UNION {[1..n -> EntityItems] : n \in 0..MaxItems}}
UiEvents ==
    {[type |-> <<"event">>, source |-> <<"x">>, event2 |-> e] :
        e \in {<<"nav.next">>, <<"light">>, <<"scene">>, <<"bExit">>}}
    \cup {[type |-> <<"hw">>, source |-> b, event2 |-> <<"button">>] :
             b \in {<<"button1">>, <<"button2">>}}
PageMessages ==
    {[topic |-> STR_MSG_TOPIC_DATA, payload |-> p] : p \in DataPayloads}
    \cup {[topic |-> STR_MSG_TOPIC_EVENT, payload |-> e] : e \in UiEvents}
    \cup {[topic |-> <<"status">>, payload |-> JStr(<<"on">>)]}
    \cup {[payload |-> JStr(<<"on">>)]}

\* PageNodeBase.setActive(state)
SetActive(state) ==
    /\ isActive' = state
    /\ emitted' = <<>>
    /\ pageInput' = [fn |-> "setActive", state |-> state]
    /\ UNCHANGED <<updaterVars, input, output, pageData, options, config, data, pageCache,
                   generated>>

\* a message arrives at the node: PageNodeBase.onInput
OnInput(msg, h) ==
    LET r == onInput(isActive, pageData, options, msg, h)
    IN  /\ pageData' = r.pageData
        /\ emitted' = r.emitted
        /\ pageInput' = [fn |-> "onInput", msg |-> msg, handleInput |-> h, result |-> r.result]
        /\ UNCHANGED <<updaterVars, input, output, isActive, options, config, data,
                       pageCache, generated>>

\* construction of a page node of any page type
InitPage ==
    /\ InitUpdater
    /\ autoUpdate = FALSE
    /\ \E o \in PageOptionsSet : Constructed(o, DefaultThermoConfig)

NextPage ==
    \/ \E state \in BOOLEAN : SetActive(state)
    \/ \E msg \in PageMessages : \E h \in HandleInputOutcomes : OnInput(msg, h)

SpecPage == InitPage /\ [][NextPage]_vars

----------------------------------------------------------------------------
\* PageThermoNode.  A temperature is a number of tenths of a degree, so that
\* the division and the multiplication by TEMPERATURE_RESOLUTION_FACTOR and
\* toFixed(1) are exact.

TEMPERATURE_RESOLUTION_FACTOR == 10

\* the page cache of PageNode: one slot
hasPageCache(cache) == cache # None
getPageCache(cache) == Get(cache)
setPageCache(page) == Some(page)
clearPageCache == None

\* NSPanelUtils.convertTemperature(temperature, sourceUnit, targetUnit)
convertTemperature(t, sourceUnit, targetUnit) ==
    IF sourceUnit = <<"F">> /\ targetUnit = <<"C">>
    THEN Num(((t.num - 32 * TEMPERATURE_RESOLUTION_FACTOR) * 5) \div 9)
    ELSE IF sourceUnit = <<"C">> /\ targetUnit = <<"F">>
    THEN Num((t.num * 9) \div 5 + 32 * TEMPERATURE_RESOLUTION_FACTOR)
    ELSE t

\* Number.prototype.toFixed(1)
toFixed1(t) ==
    <<ToString(t.num \div TEMPERATURE_RESOLUTION_FACTOR), ".",
      ToString(t.num % TEMPERATURE_RESOLUTION_FACTOR)>>

\* Number.prototype.toString() of value * TEMPERATURE_RESOLUTION_FACTOR
timesFactorToString(t) == IF t = NaN THEN <<"NaN">> ELSE <<ToString(t.num)>>

\* the fields of the page that PageThermoNode.generatePage builds from
\* this.data
thermoPage(cfg, d) ==
    [currTemp |-> IF IsNullish(d.currentTemperature) \/ d.currentTemperature = NaN
                  THEN <<>>
                  ELSE toFixed1(d.currentTemperature) \o <<" °">> \o cfg.temperatureUnit,
     targetTemp |-> timesFactorToString(d.targetTemperature),
     status |-> IF IsNullish(d.status) THEN <<>> ELSE d.status.str]

\* PageThermoNode.generatePage: the page returned and the cache afterwards
thermoGeneratePage(cache, cfg, d) ==
    IF hasPageCache(cache)
    THEN [page |-> getPageCache(cache), cache |-> cache]
    ELSE LET pageData_ == thermoPage(cfg, d)
         IN  [page |-> pageData_, cache |-> setPageCache(pageData_)]

\* the keys of msg.payload that this.data has, in the order of for ... in
RECURSIVE AssignOwn(_, _, _)
AssignOwn(d, payload, keys) ==
    IF keys = <<>> THEN d
    ELSE AssignOwn(IF Head(keys) \in DOMAIN d
                   THEN [d EXCEPT ![Head(keys)] = payload[Head(keys)]] ELSE d,
                   payload, Tail(keys))

\* the handling of a message by PageThermoNode.handleInput up to the test of
\* dirty: the data afterwards, handled and dirty
thermoCases_NoDirtyOnEvent(cfg, d, msg) ==
    LET same == [data |-> d, handled |-> FALSE, dirty |-> FALSE]
    IN  CASE msg.topic = <<"sensor">> ->
                IF cfg.useOwnTempSensor /\ msg.payload.temp # Num(0)
                THEN LET tempMeasurement ==
                            convertTemperature(msg.payload.temp, msg.payload.tempUnit,
                                               cfg.temperatureUnit)
                     IN  IF tempMeasurement # d.currentTemperature
                         THEN [data |-> [d EXCEPT !.currentTemperature = tempMeasurement],
                               handled |-> FALSE, dirty |-> TRUE]
                         ELSE same
                ELSE same
          [] msg.topic = STR_MSG_TOPIC_DATA ->
                IF IsObj(msg.payload) /\ \E n \in 1..Len(msg.keys) : msg.keys[n] \in DOMAIN d
                THEN [data |-> AssignOwn(d, msg.payload.obj, msg.keys),
                      handled |-> TRUE, dirty |-> TRUE]
                ELSE same
          [] msg.topic = STR_MSG_TOPIC_EVENT ->
                IF /\ msg.payload.event = STR_LUI_EVENT_BUTTONPRESS2
                   /\ msg.payload.event2 = <<"tempUpd">>
                   /\ Number(msg.payload.value) # NaN
                THEN [data |-> [d EXCEPT !.targetTemperature = Number(msg.payload.value)],
                      handled |-> FALSE, dirty |-> FALSE]
                ELSE same
          [] OTHER -> same

thermoCases(cfg, d, msg) ==
    LET same == [data |-> d, handled |-> FALSE, dirty |-> FALSE]
    IN  CASE msg.topic = <<"sensor">> ->
                IF cfg.useOwnTempSensor /\ msg.payload.temp # Num(0)
                THEN LET tempMeasurement ==
                            convertTemperature(msg.payload.temp, msg.payload.tempUnit,
                                               cfg.temperatureUnit)
                     IN  IF tempMeasurement # d.currentTemperature
                         THEN [data |-> [d EXCEPT !.currentTemperature = tempMeasurement],
                               handled |-> FALSE, dirty |-> TRUE]
                         ELSE same
                ELSE same
          [] msg.topic = STR_MSG_TOPIC_DATA ->
                IF IsObj(msg.payload) /\ \E n \in 1..Len(msg.keys) : msg.keys[n] \in DOMAIN d
                THEN [data |-> AssignOwn(d, msg.payload.obj, msg.keys),
                      handled |-> TRUE, dirty |-> TRUE]
                ELSE same
          [] msg.topic = STR_MSG_TOPIC_EVENT ->
                IF /\ msg.payload.event = STR_LUI_EVENT_BUTTONPRESS2
                   /\ msg.payload.event2 = <<"tempUpd">>
                   /\ Number(msg.payload.value) # NaN
                THEN [data |-> [d EXCEPT !.targetTemperature = Number(msg.payload.value)],
                      handled |-> FALSE, dirty |-> TRUE]
                ELSE same
          [] OTHER -> same

\* PageThermoNode.handleInput: the data, the cache and the emissions
\* afterwards, and the value returned; super.handleInput is the one of the
\* base class, which handles nothing
thermoHandleInput(active, cache, cfg, d, msg) ==
    LET c == thermoCases(cfg, d, msg)
    IN  IF c.dirty
        THEN [data |-> c.data, cache |-> clearPageCache,
              emitted |-> requestUpdate(active, <<>>), handled |-> c.handled]
        ELSE [data |-> c.data, cache |-> cache, emitted |-> <<>>, handled |-> FALSE]

\* the messages a thermo page receives; keys is the order of the keys of an
\* object payload
Temperatures == {Num(190), Num(215)}
SensorPayloads ==
    {[temp |-> Num(t), tempUnit |-> <<"C">>] : t \in {0, 215}}
    \cup {[temp |-> Num(680), tempUnit |-> <<"F">>]}
ThermoDataMessages ==
    {[topic |-> STR_MSG_TOPIC_DATA, payload |-> JObj([targetTemperature |-> t]),
      keys |-> <<"targetTemperature">>] : t \in Temperatures \cup {[num |-> 200]}}
    \cup {[topic |-> STR_MSG_TOPIC_DATA, payload |-> JObj([currentTemperature |-> t]),
           keys |-> <<"currentTemperature">>] : t \in Temperatures \cup {JNull}}
    \cup {[topic |-> STR_MSG_TOPIC_DATA,
           payload |-> JObj([status |-> s, brightness |-> JNum(5)]),
           keys |-> <<"brightness", "status">>] : s \in {JStr(<<"heating">>), JNull}}
    \cup {[topic |-> STR_MSG_TOPIC_DATA, payload |-> JObj([brightness |-> JNum(5)]),
           keys |-> <<"brightness">>],
          [topic |-> STR_MSG_TOPIC_DATA,
           payload |-> JArr(<<JObj([entityId |-> JStr(<<"e1">>)])>>), keys |-> <<>>]}
ThermoEvents ==
    {[event |-> STR_LUI_EVENT_BUTTONPRESS2, event2 |-> <<"tempUpd">>, value |-> v] :
        v \in {<<"1", "9", "0">>, <<"2", "1", "5">>, <<"x">>}}
    \cup {[event |-> STR_LUI_EVENT_BUTTONPRESS2, event2 |-> <<"button">>,
           value |-> <<"2", "1", "5">>]}
ThermoMessages ==
    {[topic |-> <<"sensor">>, payload |-> p, keys |-> <<>>] : p \in SensorPayloads}
    \cup ThermoDataMessages
    \cup {[topic |-> STR_MSG_TOPIC_EVENT, payload |-> e, keys |-> <<>>] : e \in ThermoEvents}
    \cup {[topic |-> <<"status">>, payload |-> JStr(<<"on">>), keys |-> <<>>]}

\* a message arrives at the thermo page: PageThermoNode.handleInput
ThermoInput(msg) ==
    LET r == thermoHandleInput(isActive, pageCache, config, data, msg)
    IN  /\ data' = r.data
        /\ pageCache' = r.cache
        /\ emitted' = r.emitted
        /\ pageInput' = [fn |-> "handleInput", msg |-> msg, handled |-> r.handled]
        /\ UNCHANGED <<updaterVars, input, output, isActive, pageData, options, config,
                       generated>>

\* the panel asks for the page: PageThermoNode.generatePage
GeneratePage ==
    LET r == thermoGeneratePage(pageCache, config, data)
    IN  /\ generated' = Some(r.page)
        /\ pageCache' = r.cache
        /\ emitted' = <<>>
        /\ pageInput' = [fn |-> "generatePage"]
        /\ UNCHANGED <<updaterVars, input, output, isActive, pageData, options, config,
                       data>>

\* construction of a thermo page, with or without its own temperature sensor
InitThermo ==
    /\ InitUpdater
    /\ autoUpdate = FALSE
    /\ \E c \in ThermoConfigs : Constructed(ThermoOptions, c)

NextThermo ==
    \/ \E state \in BOOLEAN : SetActive(state)
    \/ \E msg \in ThermoMessages : ThermoInput(msg)
    \/ GeneratePage

SpecThermo == InitThermo /\ [][NextThermo]_vars

----------------------------------------------------------------------------
\* Vocabulary of the properties

\* the update commands among the commands s
UpdCmds(s) == SelectSeq(s, LAMBDA c : c.cmd \in UpdateCommands)

\* the command names that make up the update of kind k
DispatchCmds(k) ==
    CASE k = FIRMWARE_TASMOTA -> <<"STR_TASMOTA_CMD_OTAURL", "STR_TASMOTA_CMD_UPGRADE">>
      [] k = FIRMWARE_BERRYDRIVER -> <<"STR_TASMOTA_CMD_BACKLOG">>
      [] k = FIRMWARE_HMI -> <<"STR_BERRYDRIVER_CMD_FLASHNEXTION">>

\* the commands s are exactly one update of kind k
Dispatched(s, k) ==
    /\ Len(UpdCmds(s)) = Len(DispatchCmds(k))
    /\ \A n \in 1..Len(UpdCmds(s)) : UpdCmds(s)[n].cmd = DispatchCmds(k)[n]

SuccessStep == \E k \in FirmwareTypes : OnFirmwareEvent(UpdateEvent(k, "success"))
NonSuccessStep ==
    \E k \in FirmwareTypes, s \in {"failed", "null"} : OnFirmwareEvent(UpdateEvent(k, s))

LastWasSuccess == lastInput[1] = "update" /\ lastInput[3] = "success"
LastWasConfirm == lastInput[1] = "confirm"

\* the notify id names the firmware kind k
Names(notifyId, k) == notifyId = STR_UPDATE_NOTIFY_PREFIX \o k

----------------------------------------------------------------------------
\* C1: single-flight dispatch.  Whenever a handler has sent update commands,
\* they are the commands of one update, the procedure that sent them found the
\* latch clear on entry and had set it when it sent each of them, and the
\* latch is set afterwards.
C1_SingleFlight ==
    UpdCmds(sent) # <<>> =>
        /\ updateInProgress
        /\ \E k \in FirmwareTypes : Dispatched(sent, k)
        /\ \A n \in 1..Len(sent) :
              sent[n].cmd \in UpdateCommands => ~sent[n].onEntry /\ sent[n].busy

\* a success event released the latch and the next update went out, with
\* another task still queued
C1_Witness ==
    /\ LastWasSuccess
    /\ UpdCmds(sent) # <<>>
    /\ updateTaskStack # <<>>

\* C2: when processUpdateTasks is entered with the latch set, the handler that
\* called it leaves the stack as processUpdateTasks found it (same tasks, same
\* order), the latch set, and sends nothing.
C2_BusyProcessingIsNoOp ==
    (taskEntry # None /\ Get(taskEntry).inProgress) =>
        /\ updateTaskStack = Get(taskEntry).stack
        /\ updateInProgress
        /\ sent = <<>>

C2_Witness ==
    /\ taskEntry # None
    /\ Get(taskEntry).inProgress
    /\ Len(Get(taskEntry).stack) >= 2

\* C3: a success event clears the latch and processes one task: with a
\* non-empty stack the top task is dispatched (by a procedure that found the
\* latch clear), it leaves the stack and the latch is set again; with an empty
\* stack the latch ends clear and nothing is sent.
C3_SuccessProcessesOne ==
    [][SuccessStep =>
          /\ taskEntry' = Some([inProgress |-> FALSE, stack |-> updateTaskStack])
          /\ IF updateTaskStack # <<>>
             THEN /\ updateInProgress'
                  /\ Dispatched(sent', Last(updateTaskStack))
                  /\ \A n \in 1..Len(sent') : ~sent'[n].onEntry
                  /\ updateTaskStack' = Front(updateTaskStack)
             ELSE /\ ~updateInProgress'
                  /\ sent' = <<>>
                  /\ updateTaskStack' = <<>>]_vars

C3_Witness ==
    /\ LastWasSuccess
    /\ taskEntry # None
    /\ Len(Get(taskEntry).stack) = 2
    /\ Len(updateTaskStack) = 1
    /\ updateInProgress
    /\ UpdCmds(sent) # <<>>

\* C4: an update event whose status is not 'success' changes neither the
\* latch, the stack nor the version data and sends nothing; and while the latch
\* is set, only the handling of a success event dispatches an update.
C4_NonSuccessKeepsLatch ==
    [][/\ NonSuccessStep =>
             /\ UNCHANGED <<updateInProgress, updateTaskStack, status, current, latest>>
             /\ sent' = <<>>
       /\ (updateInProgress /\ UpdCmds(sent') # <<>>) => SuccessStep]_vars

C4_Witness ==
    /\ lastInput[1] = "update"
    /\ lastInput[3] = "failed"
    /\ updateInProgress
    /\ updateTaskStack # <<>>
    /\ status # StatusNone
    /\ sent = <<>>

\* C5: a confirmation result changes stack, latch and output only if the
\* action is 'yes' and the notify id names a firmware kind; then that kind is
\* put on the stack and the tasks are processed: with the latch set the task
\* stays on top, with the latch clear the top task is dispatched.
C5_OnlyYesEnqueues ==
    [][\A id \in NotifyIds, a \in NotifyActions :
          OnUpdateNotificationResult(id, a) =>
              IF a = <<"yes">> /\ \E k \in FirmwareTypes : Names(id, k)
              THEN LET k == CHOOSE k \in FirmwareTypes : Names(id, k)
                       q == Append(updateTaskStack, k)
                   IN  /\ taskEntry' = Some([inProgress |-> updateInProgress, stack |-> q])
                       /\ updateInProgress'
                       /\ IF updateInProgress
                          THEN updateTaskStack' = q /\ sent' = <<>>
                          ELSE updateTaskStack' = Front(q) /\ Dispatched(sent', Last(q))
              ELSE /\ UNCHANGED <<updateInProgress, updateTaskStack>>
                   /\ sent' = <<>>]_vars

\* the user declined while tasks were queued
C5_Witness ==
    /\ LastWasConfirm
    /\ lastInput[3] = <<"no">>
    /\ \E k \in FirmwareTypes : Names(lastInput[2], k)
    /\ updateTaskStack # <<>>

\* C6: the stack is last-in-first-out.  A confirmation that does not dispatch
\* puts its task on top; every dispatch takes the task on top of the queued
\* tasks, the one just confirmed included, and leaves the others in order.
\* With berry-driver and then HMI queued, a success event dispatches HMI and
\* the following one berry-driver.
C6_Lifo ==
    [][/\ \A d \in FirmwareTypes :
             Dispatched(sent', d) =>
                 LET q == IF lastInput'[1] = "confirm"
                          THEN Append(updateTaskStack,
                                      CHOOSE k \in FirmwareTypes : Names(lastInput'[2], k))
                          ELSE updateTaskStack
                 IN  d = Last(q) /\ updateTaskStack' = Front(q)
       /\ (SuccessStep /\ updateTaskStack = <<FIRMWARE_BERRYDRIVER, FIRMWARE_HMI>>) =>
             Dispatched(sent', FIRMWARE_HMI) /\ updateTaskStack' = <<FIRMWARE_BERRYDRIVER>>
       /\ (SuccessStep /\ updateTaskStack = <<FIRMWARE_BERRYDRIVER>>) =>
             Dispatched(sent', FIRMWARE_BERRYDRIVER) /\ updateTaskStack' = <<>>]_vars

C6_Witness ==
    /\ LastWasSuccess
    /\ Dispatched(sent, FIRMWARE_HMI)
    /\ updateTaskStack = <<FIRMWARE_BERRYDRIVER>>

----------------------------------------------------------------------------
\* Acquisition

Resolved == settled # None /\ Get(settled).how = "resolved"
Rejected == settled # None /\ Get(settled).how = "rejected"

AnyAvailable(s) ==
    \/ HasFlag(s, TasmotaUpdateAvailable)
    \/ HasFlag(s, BerryDriverUpdateAvailable)
    \/ HasFlag(s, HmiUpdateAvailable)

\* exactly one notification, for the firmware kind k
NotifiedFor(k) ==
    /\ Len(notified) = 1
    /\ Names(notified[1].notifyId, k)

\* C7 as stated: with automatic updates disabled, a resolved acquisition shows
\* one notification if an '-available' flag is set and none otherwise, for the
\* first available kind in the order HMI, berry driver, tasmota.
C7_HmiFirst ==
    (Resolved /\ autoUpdate = FALSE) =>
        IF AnyAvailable(status)
        THEN NotifiedFor(IF HasFlag(status, HmiUpdateAvailable) THEN FIRMWARE_HMI
                         ELSE IF HasFlag(status, BerryDriverUpdateAvailable)
                         THEN FIRMWARE_BERRYDRIVER
                         ELSE FIRMWARE_TASMOTA)
        ELSE notified = <<>>

\* C7 as amended: with automatic updates disabled, a resolved acquisition
\* shows one notification if an '-available' flag is set and none otherwise,
\* for the first available kind in the order tasmota, berry driver, HMI.
C7_TasmotaFirst ==
    (Resolved /\ autoUpdate = FALSE) =>
        IF AnyAvailable(status)
        THEN NotifiedFor(IF HasFlag(status, TasmotaUpdateAvailable) THEN FIRMWARE_TASMOTA
                         ELSE IF HasFlag(status, BerryDriverUpdateAvailable)
                         THEN FIRMWARE_BERRYDRIVER
                         ELSE FIRMWARE_HMI)
        ELSE notified = <<>>

\* HMI and tasmota updates are both available and the tasmota one is shown
C7_Witness ==
    /\ Resolved
    /\ autoUpdate = FALSE
    /\ HasFlag(status, HmiUpdateAvailable)
    /\ HasFlag(status, TasmotaUpdateAvailable)
    /\ NotifiedFor(FIRMWARE_TASMOTA)

\* C8: with automatic updates enabled, a resolved acquisition with an
\* '-available' flag set shows no notification and has put an update task on
\* the stack or dispatched it.
C8_AutoUpdateEnqueues ==
    (Resolved /\ autoUpdate = TRUE /\ AnyAvailable(status)) =>
        /\ notified = <<>>
        /\ updateTaskStack # <<>> \/ UpdCmds(sent) # <<>> \/ updateInProgress

\* C9: the promise of a round is rejected at the tenth run of
\* waitForDataAcquisition and at no other, 9 timer delays of 1000 ms after the
\* first run, with the flag set of that moment which lacks a '-known' flag;
\* the tenth run rejects whenever it finds a '-known' flag missing, no promise
\* is pending after it, and a rejected promise stays rejected.
C9_TimeoutAtTenthPoll ==
    [][\A r \in 1..Len(rounds') :
          LET old == IF r <= Len(rounds) THEN rounds[r] ELSE NewRound
              new == rounds'[r]
              inspected == IF r <= Len(rounds) THEN status ELSE StatusNone
          IN  /\ (old.promise = "pending" /\ new.promise = "rejected") =>
                    /\ new.polls = 10
                    /\ new.elapsed = 9 * 1000
                    /\ settled' = {[round |-> r, how |-> "rejected", value |-> status']}
                    /\ AndAllAcquired(status') # AllAcquired
              /\ (old.promise = "pending" /\ new.polls = 10 /\ old.polls = 9
                    /\ AndAllAcquired(inspected) # AllAcquired) => new.promise = "rejected"
              /\ new.polls >= 10 => new.promise # "pending"
              /\ new.polls = old.polls + 1 => new.elapsed = (new.polls - 1) * 1000
              /\ old.promise = "rejected" => new.promise = "rejected"]_vars

\* a round times out with five of the six '-known' flags set
C9_Witness ==
    /\ Rejected
    /\ Get(settled).value \in {AllAcquired - f : f \in {1, 2, 4, 8, 16, 32}}

\* C10: a run of waitForDataAcquisition on a pending promise resolves it if and
\* only if it finds all six '-known' flags set; when it does, the same step has
\* set each '-available' flag whose comparison holds, resolves with the
\* resulting flag set and schedules no further poll.
C10_EarlyResolution ==
    [][\A r \in 1..Len(rounds') :
          LET old == IF r <= Len(rounds) THEN rounds[r] ELSE NewRound
              new == rounds'[r]
              inspected == IF r <= Len(rounds) THEN status ELSE StatusNone
          IN  (old.promise = "pending" /\ new.polls = old.polls + 1) =>
                  IF AndAllAcquired(inspected) = AllAcquired
                  THEN /\ new.promise = "resolved"
                       /\ ~new.timer
                       /\ settled' = {[round |-> r, how |-> "resolved", value |-> status']}
                       /\ AndAllAcquired(status') = AllAcquired
                       /\ HasFlag(status', TasmotaUpdateAvailable) =
                             (\/ HasFlag(status, TasmotaUpdateAvailable)
                              \/ SemverGt(Get(latest.tasmota).version, Get(current.tasmota).version))
                       /\ HasFlag(status', BerryDriverUpdateAvailable) =
                             (\/ HasFlag(status, BerryDriverUpdateAvailable)
                              \/ StrGt(Get(latest.berryDriver).version,
                                       Get(current.berryDriver).version))
                       /\ HasFlag(status', HmiUpdateAvailable) =
                             (\/ HasFlag(status, HmiUpdateAvailable)
                              \/ StrGt(Get(latest.hmi).internalVersion,
                                       Get(current.hmi).internalVersion))
                  ELSE new.promise # "resolved" /\ status' = inspected]_vars

\* a round resolves at its third poll
C10_Witness ==
    /\ Resolved
    /\ rounds[Get(settled).round].polls = 3

----------------------------------------------------------------------------
\* Polling after the end of a round

\* the rounds whose timer is pending
PendingPolls == {r \in 1..Len(rounds) : rounds[r].timer}

\* round r ran waitForDataAcquisition in this step
Polled(r) ==
    IF r <= Len(rounds) THEN rounds'[r].polls = rounds[r].polls + 1 ELSE r <= Len(rounds')

\* C11: once the promise of a round is rejected, no timer of that round is
\* pending, the round never runs waitForDataAcquisition again, and an
\* '-available' flag that becomes set is set by the poll of a round that had
\* not timed out.
C11_NoPollAfterTimeout ==
    [][/\ \A r \in 1..Len(rounds) :
             rounds[r].promise = "rejected" => ~rounds[r].timer /\ ~Polled(r)
       /\ (AnyAvailable(status') /\ ~AnyAvailable(status)) =>
             \E r \in 1..Len(rounds') :
                 Polled(r) /\ (r <= Len(rounds) => rounds[r].promise # "rejected")]_vars

\* C12: at most one timer of waitForDataAcquisition is pending at any time.
C12_OnePollTask == Cardinality(PendingPolls) <= 1

----------------------------------------------------------------------------
\* The flag set

Known(s, k) ==
    CASE k = FIRMWARE_TASMOTA ->
            HasFlag(s, TasmotaVersionCurrent) /\ HasFlag(s, TasmotaVersionLatest)
      [] k = FIRMWARE_BERRYDRIVER ->
            HasFlag(s, BerryDriverVersionCurrent) /\ HasFlag(s, BerryDriverVersionLatest)
      [] k = FIRMWARE_HMI ->
            HasFlag(s, HmiVersionCurrent) /\ HasFlag(s, HmiVersionLatest)

Available(s, k) ==
    CASE k = FIRMWARE_TASMOTA -> HasFlag(s, TasmotaUpdateAvailable)
      [] k = FIRMWARE_BERRYDRIVER -> HasFlag(s, BerryDriverUpdateAvailable)
      [] k = FIRMWARE_HMI -> HasFlag(s, HmiUpdateAvailable)

\* C13: in every state, the '-available' flag of a firmware kind is set only
\* if the '-current-known' and the '-latest-known' flag of that kind are set.
C13_AvailableNeedsKnown ==
    \A k \in FirmwareTypes : Available(status, k) => Known(status, k)

\* two rounds have resolved on the one flag set, with updates available for
\* tasmota and the HMI and none for the berry driver
C13_Witness ==
    /\ Len(rounds) = 2
    /\ rounds[1].promise = "resolved"
    /\ rounds[2].promise = "resolved"
    /\ Available(status, FIRMWARE_TASMOTA)
    /\ Available(status, FIRMWARE_HMI)
    /\ ~Available(status, FIRMWARE_BERRYDRIVER)

----------------------------------------------------------------------------
\* The task stack

\* C14: the task stack never holds the same firmware kind twice.
C14_NoDuplicateTask ==
    \A m, n \in 1..Len(updateTaskStack) :
        updateTaskStack[m] = updateTaskStack[n] => m = n

----------------------------------------------------------------------------
\* C15: the step that rejects the promise of a round shows no notification,
\* sends nothing to the panel and leaves the task stack and the latch as they
\* were; the rejection carries the flag set of that moment.
C15_TimeoutIsSilent ==
    [][Rejected' =>
          /\ notified' = <<>>
          /\ sent' = <<>>
          /\ UNCHANGED <<updateInProgress, updateTaskStack>>
          /\ Get(settled').value = status']_vars

\* a round times out while an update is in flight and another is queued
C15_Witness ==
    /\ Rejected
    /\ updateInProgress
    /\ updateTaskStack # <<>>
    /\ status # StatusNone
    /\ notified = <<>>

----------------------------------------------------------------------------
\* Version reports

CurrentFlag(k) ==
    CASE k = FIRMWARE_TASMOTA -> TasmotaVersionCurrent
      [] k = FIRMWARE_BERRYDRIVER -> BerryDriverVersionCurrent
      [] k = FIRMWARE_HMI -> HmiVersionCurrent

LatestFlag(k) ==
    CASE k = FIRMWARE_TASMOTA -> TasmotaVersionLatest
      [] k = FIRMWARE_BERRYDRIVER -> BerryDriverVersionLatest
      [] k = FIRMWARE_HMI -> HmiVersionLatest

\* the field of versions.current and versions.latest that holds kind k
Field(k) ==
    CASE k = FIRMWARE_TASMOTA -> "tasmota"
      [] k = FIRMWARE_BERRYDRIVER -> "berryDriver"
      [] k = FIRMWARE_HMI -> "hmi"

\* the text of v before its first '(', v itself if it has none
BeforeParen(v) ==
    IF \E n \in 1..Len(v) : v[n] = "("
    THEN SubSeq(v, 1, (CHOOSE n \in 1..Len(v) : v[n] = "(" /\ \A m \in 1..(n - 1) : v[m] # "(") - 1)
    ELSE v

\* the current version of kind k is the reported version v
StoredCurrent(c, k, v) ==
    CASE k = FIRMWARE_TASMOTA -> c.tasmota = Some([version |-> BeforeParen(v)])
      [] k = FIRMWARE_BERRYDRIVER -> c.berryDriver = Some([version |-> v])
      [] k = FIRMWARE_HMI -> c.hmi # None /\ Get(c.hmi).internalVersion = v

\* the effect claimed for a version event of kind k carrying v
VersionStored(k, v) ==
    /\ StoredCurrent(current', k, v)
    /\ status' = SetFlag(status, CurrentFlag(k))
    /\ \A j \in FirmwareTypes \ {k} : current'[Field(j)] = current[Field(j)]
    /\ UNCHANGED <<latest, updateInProgress, updateTaskStack>>
    /\ sent' = <<>>

C17_OwnFlagOnly ==
    [][/\ \A e \in VersionEvents :
             OnFirmwareEvent(e) => status' = SetFlag(status, CurrentFlag(e.source))
       /\ \A v \in HmiReports :
             SetHmiVersion(v) => status' = SetFlag(status, HmiVersionCurrent)
       /\ \A k \in FirmwareTypes : \A resp \in Responses(k) :
             FetchDone(k, resp) =>
                 IF resp \in Answers(k)
                 THEN status' = SetFlag(status, LatestFlag(k))
                 ELSE status' = status /\ latest' = latest
       /\ \A k \in FirmwareTypes : FetchFailed(k) => status' = status]_vars

\* five sources have set their flags, the berry driver source was fetched and
\* set none
C17_Witness ==
    /\ rounds # <<>>
    /\ fetches[FIRMWARE_BERRYDRIVER] = 0
    /\ status = AllAcquired - BerryDriverVersionLatest
    /\ latest.berryDriver = None

----------------------------------------------------------------------------
\* The commands of an update

\* position of the token t in the payload p, 0 if absent
TokenAt(p, t) ==
    IF \E n \in 1..Len(p) : p[n] = t THEN CHOOSE n \in 1..Len(p) : p[n] = t ELSE 0

\* the commands s are the update of kind k, with their payloads
UpdateSequence(s, k) ==
    CASE k = FIRMWARE_TASMOTA ->
            /\ Len(s) = 2
            /\ s[1].cmd = "STR_TASMOTA_CMD_OTAURL"
            /\ s[1].payload = OtaUrl
            /\ s[2].cmd = "STR_TASMOTA_CMD_UPGRADE"
            /\ s[2].payload = <<"1">>
      [] k = FIRMWARE_BERRYDRIVER ->
            /\ Len(s) = 1
            /\ s[1].cmd = "STR_TASMOTA_CMD_BACKLOG"
            /\ LET p == s[1].payload
                   upd == TokenAt(p, "STR_BERRYDRIVER_CMD_UPDATEDRIVER")
                   rst == TokenAt(p, "STR_TASMOTA_CMD_RESTART")
               IN  /\ p[1] = "STR_TASMOTA_CMD_BACKLOG"
                   /\ upd > 0
                   /\ SubSeq(p, upd + 2, upd + 1 + Len(URL_BERRYDRIVER_LATEST))
                         = URL_BERRYDRIVER_LATEST
                   /\ rst > upd
                   /\ p[rst - 1] = "; "
                   /\ p[rst + 2] = "STR_TASMOTA_PARAM_RESTART_SAVE_TO_FLASH"
                   /\ Len(p) = rst + 2
      [] k = FIRMWARE_HMI ->
            /\ Len(s) = 1
            /\ s[1].cmd = "STR_BERRYDRIVER_CMD_FLASHNEXTION"
            /\ s[1].payload = HmiFirmwareUrl

\* C18: whatever a handler sends for an update is the command sequence of one
\* firmware kind: for tasmota the OTA-URL command and then the upgrade
\* trigger, for the berry driver one backlog command that updates the driver
\* and then restarts with save to flash, for the HMI one flash command with
\* the firmware URL; and it is the sequence of the kind taken from the stack.
C18_CommandSequences ==
    [][sent' # <<>> =>
          LET q == IF lastInput'[1] = "confirm"
                   THEN Append(updateTaskStack,
                               CHOOSE k \in FirmwareTypes : Names(lastInput'[2], k))
                   ELSE updateTaskStack
          IN  /\ q # <<>>
              /\ UpdateSequence(sent', Last(q))]_vars

\* a confirmed tasmota update has been sent
C18_Witness ==
    /\ LastWasConfirm
    /\ Names(lastInput[2], FIRMWARE_TASMOTA)
    /\ Len(sent) = 2
    /\ sent[2].cmd = "STR_TASMOTA_CMD_UPGRADE"

----------------------------------------------------------------------------
\* C19: when an acquisition resolves, tasmota-update-available is set if and
\* only if the latest tasmota version is greater than the current one in
\* semantic-version order, berry-update-available if and only if the latest
\* version string is greater than the current one as a string, and
\* hmi-update-available if and only if the latest internalVersion is greater
\* than the current one as a string; as strings, "10" is not greater than "9".
C19_ComparisonPolicy ==
    /\ ~StrGt(<<"1", "0">>, <<"9">>)
    /\ Resolved =>
          /\ Available(status, FIRMWARE_TASMOTA)
                = SemverGt(Get(latest.tasmota).version, Get(current.tasmota).version)
          /\ Available(status, FIRMWARE_BERRYDRIVER)
                = StrGt(Get(latest.berryDriver).version, Get(current.berryDriver).version)
          /\ Available(status, FIRMWARE_HMI)
                = StrGt(Get(latest.hmi).internalVersion, Get(current.hmi).internalVersion)

----------------------------------------------------------------------------
\* C20: a tasmota version event carrying a version string stores the text
\* before the first '(' of the string as the current tasmota version, and the
\* string itself if it holds no '('.
C20_PrefixBeforeParen ==
    [][\A v \in ParenReports :
          OnFirmwareEvent(VersionEvent(FIRMWARE_TASMOTA, Some(v))) =>
              current'.tasmota = Some([version |-> BeforeParen(v)])]_vars

----------------------------------------------------------------------------
\* The decoder

\* the payload is not JSON, or its handling fails: it denotes no object, or
\* its CustomRecv is no string
Malformed(p) ==
    \/ p.json = None
    \/ ~(IsObj(Get(p.json)) \/ IsArr(Get(p.json)))
    \/ hasProperty(Get(p.json), "CustomRecv") /\ ~IsStr(Get(p.json).obj.CustomRecv)

\* the fields of the CustomRecv message that was parsed
Fields == Split(Get(input.arg.json).obj.CustomRecv.str, ",")

\* parse was called on a CustomRecv message with a string value
ParsedFields ==
    /\ input.fn = "parse"
    /\ input.arg.json # None
    /\ hasProperty(Get(input.arg.json), "CustomRecv")
    /\ IsStr(Get(input.arg.json).obj.CustomRecv)

\* the outcome of the call: what it returned or what it threw
Outcome == output[input.fn]

\* the event the call returned
Event == Get(Outcome.value)

\* C21: parse returns an event for every payload and never throws; for a
\* payload that is not JSON or whose handling fails, the event is of type
\* 'unknown' and carries the payload string.
C21_ParseIsTotal ==
    input.fn = "parse" =>
        /\ ~Threw(Outcome)
        /\ Outcome.value # None
        /\ Malformed(input.arg) =>
              Event.type = "unknown" /\ Event.data = JStr(input.arg.text)

\* parse decoded a buttonPress2 event whose parts[3] is b
ButtonPress2Of(b) ==
    /\ ParsedFields
    /\ Part(Fields, 0) = <<"event">>
    /\ Part(Fields, 1) = STR_LUI_EVENT_BUTTONPRESS2
    /\ Part(Fields, 3) = b

\* the number of tokens of parts[4] between '|'
ColorTokens ==
    IF Part(Fields, 4) \in {Undefined, <<>>} THEN 0 ELSE Len(Split(Part(Fields, 4), "|"))

\* C22 as stated: a colorWheel event has event2 'color', and has rgb and hsv
\* attached if and only if parts[4] splits on '|' into exactly two tokens.
C22_TwoTokensAttach ==
    ButtonPress2Of(<<"colorWheel">>) =>
        /\ ~Threw(Outcome)
        /\ Event.event2 = <<"color">>
        /\ (~Absent(Event, "rgb")) = (ColorTokens = 2)
        /\ (~Absent(Event, "hsv")) = (ColorTokens = 2)

\* C22 as amended: a colorWheel event has event2 'color', and has rgb and hsv
\* attached if and only if parts[4] splits on '|' into exactly three tokens;
\* they are the colour of the position given by the first two tokens.
C22_ThreeTokensAttach ==
    ButtonPress2Of(<<"colorWheel">>) =>
        /\ ~Threw(Outcome)
        /\ Event.event2 = <<"color">>
        /\ (~Absent(Event, "rgb")) = (ColorTokens = 3)
        /\ (~Absent(Event, "hsv")) = (ColorTokens = 3)
        /\ ColorTokens = 3 =>
              LET t == Split(Part(Fields, 4), "|")
              IN  <<Event.rgb, Event.hsv>> = hmiPosToColor(Number(t[1]), Number(t[2]))

\* "120|80|0" was decoded and the colour of (120, 80) attached
C22_Witness ==
    /\ ButtonPress2Of(<<"colorWheel">>)
    /\ Part(Fields, 4) = <<"1", "2", "0", "|", "8", "0", "|", "0">>
    /\ Event.rgb = [rgb |-> <<Num(120), Num(80)>>]
    /\ Event.hsv = [hsv |-> <<Num(120), Num(80)>>]

\* C23 as stated: a buttonPress2 event with parts[3] = "button" has source,
\* entityId and event2 equal to parts[2].
C23_ButtonSourceIsEntity ==
    ButtonPress2Of(<<"button">>) =>
        /\ ~Threw(Outcome)
        /\ Event.source = Part(Fields, 2)
        /\ Event.entityId = Part(Fields, 2)
        /\ Event.event2 = Part(Fields, 2)

\* C23 as amended: a buttonPress2 event with parts[3] = "button" has source
\* equal to parts[3], that is "button", and entityId and event2 equal to
\* parts[2].
C23_ButtonSourceIsButton ==
    ButtonPress2Of(<<"button">>) =>
        /\ ~Threw(Outcome)
        /\ Event.source = <<"button">>
        /\ Event.source = Part(Fields, 3)
        /\ Event.entityId = Part(Fields, 2)
        /\ Event.event2 = Part(Fields, 2)

\* a button event of four fields was decoded
C23_Witness ==
    /\ ButtonPress2Of(<<"button">>)
    /\ Len(Fields) = 4
    /\ Event.source = <<"button">>
    /\ Event.event2 = <<"light.kitchen">>
    /\ Event.entityId = <<"light.kitchen">>

\* C24: a buttonPress2 event with parts[3] = "OnOff" has source and entityId
\* equal to parts[2]; active is true when parts[4] is taken for true and is
\* undefined, never false, when parts[4] is missing or not taken for true.
\* The fields event, buttonPress2, light.kitchen, OnOff, 1 give source and
\* entityId light.kitchen and active true.
C24_OnOffActive ==
    ButtonPress2Of(<<"OnOff">>) =>
        /\ ~Threw(Outcome)
        /\ Event.source = Part(Fields, 2)
        /\ Event.entityId = Part(Fields, 2)
        /\ IF Part(Fields, 4) \in TrueLike
           THEN Event.active = Bool(TRUE)
           ELSE Absent(Event, "active")
        /\ Fields = <<<<"event">>, <<"buttonPress2">>, <<"light.kitchen">>, <<"OnOff">>, <<"1">>>> =>
              /\ Event.source = <<"light.kitchen">>
              /\ Event.entityId = <<"light.kitchen">>
              /\ Event.active = Bool(TRUE)

\* an OnOff event with parts[4] = "0" was decoded and has no active
C24_Witness ==
    /\ ButtonPress2Of(<<"OnOff">>)
    /\ Part(Fields, 4) = <<"0">>
    /\ Absent(Event, "active")
    /\ Event.value = Num(0)

\* C25: a buttonPress2 event decoded from exactly five fields has, whatever
\* parts[3] is, value equal to the number parts[4] denotes when it denotes
\* one, and data equal to the string parts[4] otherwise. With another number
\* of fields the rule sets neither: outside the 'number-set' case, which sets
\* them itself, the event has no value and no data.
C25_TrailingFieldRule ==
    \A b \in ButtonTypes :
        ButtonPress2Of(b) =>
            IF Len(Fields) = 5
            THEN IF Number(Part(Fields, 4)) = NaN
                 THEN Event.data = JStr(Part(Fields, 4))
                 ELSE Event.value = Number(Part(Fields, 4))
            ELSE b # <<"number-set">> => Absent(Event, "value") /\ Absent(Event, "data")

\* a five-field colorWheel event was decoded with its parts[4] as data
C25_Witness ==
    /\ ButtonPress2Of(<<"colorWheel">>)
    /\ Len(Fields) = 5
    /\ "data" \in DOMAIN Event
    /\ Event.data = JStr(<<"1", "2", "0", "|", "8", "0", "|", "0">>)

\* the action names and their codes
ActionCodeTable ==
    <<<<"S", "I", "N", "G", "L", "E">>, <<"D", "O", "U", "B", "L", "E">>,
      <<"T", "R", "I", "P", "L", "E">>, <<"Q", "U", "A", "D">>, <<"P", "E", "N", "T", "A">>>>

\* the argument is a string that is a casing of the name of code n
NamesCode(actionString, n) ==
    IsStr(actionString) /\ actionString.str \in Casings(ActionCodeTable[n])

\* C26: actionStringToNumber gives 1, 2, 3, 4, 5 for every letter-casing of
\* single, double, triple, quad, penta, and undefined for every other
\* argument, a missing action name included; it never gives 0 and never
\* throws.
C26_ActionCodeTable ==
    input.fn = "actionStringToNumber" =>
        /\ ~Threw(Outcome)
        /\ Outcome.value # Num(0)
        /\ \A n \in 1..5 : NamesCode(input.arg, n) => Outcome.value = Num(n)
        /\ (\A n \in 1..5 : ~NamesCode(input.arg, n)) => Outcome.value = Undef

\* the fields among POWER1, POWER2, Button1, Button2 that the message has
HardwareFields ==
    SelectSeq(<<"POWER1", "POWER2", "Button1", "Button2">>,
              LAMBDA k : hasProperty(input.arg, k))

\* C27: parseHardwareEvent returns one event per field the message has among
\* POWER1, POWER2, Button1, Button2, the relays first and the buttons next;
\* a relay event is active exactly when the value of its field is "ON".  For
\* a message with none of the four fields it returns one fallback event that
\* carries the message.  The result is never empty.
C27_OneEventPerField ==
    input.fn = "parseHardwareEvent" =>
        /\ ~Threw(Outcome)
        /\ Len(Outcome.value) > 0
        /\ IF HardwareFields = <<>>
           THEN /\ Len(Outcome.value) = 1
                /\ Outcome.value[1].type = "hw"
                /\ Outcome.value[1].data = input.arg
           ELSE /\ Len(Outcome.value) = Len(HardwareFields)
                /\ \A n \in 1..Len(HardwareFields) :
                      LET k == HardwareFields[n]
                          e == Outcome.value[n]
                      IN  /\ e.source = toLowerCase(PropertyName[k])
                          /\ IF k \in {"POWER1", "POWER2"}
                             THEN /\ e.event = <<"relay">>
                                  /\ e.active = Bool(input.arg.obj[k] = JStr(<<"ON">>))
                             ELSE e.event = <<"button">>

\* one of the two decoders of update outcomes returned an event
UpdateDecoded ==
    /\ input.fn \in {"parseTasmotaUpgradeEvent", "parseBerryDriverUpdateEvent"}
    /\ Outcome.value # None
    /\ Event.event = <<"update">>

\* C28: every 'update' event of the decoder has status 'success' or 'failed'.
\* For an upgrade result of tasmota it is 'success' exactly when the value
\* starts with the successful prefix; for the echo of a driver-update or
\* HMI-flash command it is 'success' exactly when the value is the success
\* literal, and 'failed' otherwise.
C28_UpdateOutcome ==
    UpdateDecoded =>
        /\ Event.status \in {<<"success">>, <<"failed">>}
        /\ input.fn = "parseTasmotaUpgradeEvent" =>
              (Event.status = <<"success">>) =
                  startsWith(input.arg.obj[STR_TASMOTA_MSG_UPGRADE].str,
                             STR_TASMOTA_UPGRADE_SUCCESSFUL)
        /\ input.fn = "parseBerryDriverUpdateEvent" =>
              (Event.status = <<"success">>) =
                  (input.arg.obj[IF Event.source = FIRMWARE_BERRYDRIVER
                                 THEN STR_BERRYDRIVER_CMD_UPDATEDRIVER
                                 ELSE STR_BERRYDRIVER_CMD_FLASHNEXTION]
                       = JStr(STR_LUI_CMD_SUCCESS))

\* the event names that parseEvent has a case for
RecognisedEvents ==
    {STR_LUI_EVENT_STARTUP, STR_LUI_EVENT_SLEEPREACHED, STR_LUI_EVENT_BUTTONPRESS2,
     STR_LUI_EVENT_PAGEOPENDETAIL}

\* C29: a field list whose parts[0] is not "event" decodes to the event with
\* empty event, event2 and source and nothing else.  For parts[0] = "event"
\* the event name is parts[1]; 'startup' makes the source "hmi" and attaches
\* hmiVersion with internalVersion parts[2] and model parts[3];
\* 'pageOpenDetail' makes entityId parts[3]; a name that is not recognised
\* makes data.raw the fields from index 2 on.
C29_CommaDispatch ==
    ParsedFields =>
        /\ ~Threw(Outcome)
        /\ Outcome.value # None
        /\ IF Part(Fields, 0) # <<"event">>
           THEN Event = [type |-> "event", event |-> <<>>, event2 |-> <<>>, source |-> <<>>]
           ELSE /\ Event.type = "event"
                /\ Event.event = Part(Fields, 1)
                /\ Part(Fields, 1) = STR_LUI_EVENT_STARTUP =>
                      /\ Event.source = <<"hmi">>
                      /\ Event.hmiVersion.internalVersion = Part(Fields, 2)
                      /\ Event.hmiVersion.model = Part(Fields, 3)
                /\ Part(Fields, 1) = STR_LUI_EVENT_PAGEOPENDETAIL =>
                      Event.entityId = Part(Fields, 3)
                /\ Part(Fields, 1) \notin RecognisedEvents =>
                      Event.data = [raw |-> SubSeq(Fields, 3, Len(Fields))]

\* a startup message of four fields was decoded
C29_Witness ==
    /\ ParsedFields
    /\ Fields = <<<<"event">>, STR_LUI_EVENT_STARTUP, <<"5", "2">>, <<"eu">>>>
    /\ Event.source = <<"hmi">>
    /\ Event.hmiVersion.model = <<"eu">>

\* C30: after an update of kind k was dispatched, a success event that
\* reports another kind j does not release the latch: its handling leaves
\* the latch set and dispatches no update.
C30_OwnKindReleasesLatch ==
    [][\A k \in FirmwareTypes, j \in FirmwareTypes :
          (/\ j # k
           /\ Dispatched(sent, k)
           /\ updateInProgress
           /\ OnFirmwareEvent(UpdateEvent(j, "success"))) =>
              /\ updateInProgress'
              /\ UpdCmds(sent') = <<>>
              /\ updateTaskStack' = updateTaskStack]_vars

\* C31: between operations a non-empty task stack implies that the latch is
\* set: with the latch clear the stack is empty, after every sequence of
\* confirmations, success events and other update events.
C31_StackImpliesLatch ==
    /\ updateTaskStack # <<>> => updateInProgress
    /\ ~updateInProgress => updateTaskStack = <<>>

\* two tasks wait behind an update in flight, after a failed event
C31_Witness ==
    /\ Len(updateTaskStack) = 2
    /\ updateInProgress
    /\ lastInput[1] = "update"
    /\ lastInput[3] = "failed"

\* a confirmation with the positive action
PositiveConfirm ==
    \E n \in NotifyIds : OnUpdateNotificationResult(n, STR_LUI_NOTIFY_ACTION_YES)

\* the handler that has just run confirmed the update of kind k
Confirmed(k) ==
    /\ lastInput = <<"confirm", STR_UPDATE_NOTIFY_PREFIX \o k, STR_LUI_NOTIFY_ACTION_YES>>
    /\ taskEntry # None

\* each success event dispatches at most one task, and takes at most one
\* task from the stack
C32_OneTaskPerSuccess ==
    [][SuccessStep =>
          /\ UpdCmds(sent') = <<>> \/ \E k \in FirmwareTypes : Dispatched(sent', k)
          /\ Len(updateTaskStack') >= Len(updateTaskStack) - 1]_vars

\* C32: each success event dispatches at most one task; and when the
\* positive confirmations come to an end and every update in flight is
\* followed by a success event, every confirmed task is dispatched at last
\* and the system ends with an empty stack and a clear latch.
C32_QueueDrains ==
    /\ C32_OneTaskPerSuccess
    /\ <>[][~PositiveConfirm]_vars =>
           /\ <>[](updateTaskStack = <<>> /\ ~updateInProgress)
           /\ \A k \in FirmwareTypes : Confirmed(k) ~> Dispatched(sent, k)

\* a task confirmed while an update was in flight has just been dispatched by
\* a success event that emptied the stack
C32_Witness ==
    /\ LastWasSuccess
    /\ taskEntry # None
    /\ Len(Get(taskEntry).stack) = 1
    /\ updateTaskStack = <<>>
    /\ updateInProgress
    /\ \E k \in FirmwareTypes : Dispatched(sent, k)

\* the main text of the notification shown for the update of kind k
TextMain(k) ==
    CASE k = FIRMWARE_TASMOTA -> "newFirmwareTasmotaTextMain"
      [] k = FIRMWARE_BERRYDRIVER -> "newBerryDriverTextMain"
      [] k = FIRMWARE_HMI -> "newHmiTextMain"

\* the step is the positive confirmation of the notify id
ConfirmStep(id) ==
    /\ OnUpdateNotificationResult(id, STR_LUI_NOTIFY_ACTION_YES)
    /\ lastInput' = <<"confirm", id, STR_LUI_NOTIFY_ACTION_YES>>

\* C33: the notify id of the notification shown for a firmware kind, passed
\* back with the positive action, puts a task of that kind on the stack
\* before the tasks are processed; a notify id without the update prefix or
\* with an unknown kind puts nothing on the stack.
C33_NotifyRoundTrip ==
    [][/\ \A n \in 1..Len(notified), k \in FirmwareTypes :
             (notified[n].text[1] = TextMain(k) /\ ConfirmStep(notified[n].notifyId)) =>
                 /\ notified[n].notifyId = STR_UPDATE_NOTIFY_PREFIX \o k
                 /\ taskEntry' # None
                 /\ Get(taskEntry').stack = Append(updateTaskStack, k)
       /\ \A id \in NotifyIds :
             (ConfirmStep(id) /\ \A k \in FirmwareTypes : id # STR_UPDATE_NOTIFY_PREFIX \o k) =>
                 /\ taskEntry' # None => Get(taskEntry').stack = updateTaskStack
                 /\ updateTaskStack' = updateTaskStack
                 /\ UpdCmds(sent') = <<>>]_vars

\* the notification for the berry driver was answered and its update sent
C33_Witness ==
    /\ lastInput = <<"confirm", STR_UPDATE_NOTIFY_PREFIX \o STR_UPDATE_FIRMWARE_BERRYDRIVER,
                     STR_LUI_NOTIFY_ACTION_YES>>
    /\ Dispatched(sent, FIRMWARE_BERRYDRIVER)
    /\ HasFlag(status, BerryDriverUpdateAvailable)

\* the step starts an acquisition round
RoundStarts == Len(rounds') = Len(rounds) + 1

\* C34: the start of an acquisition round clears all nine flags and leaves
\* the stored version records as they are; the round is pending when it has
\* started, so it resolves only on reports and fetch completions that come
\* after its start.
C34_RoundStartsClear ==
    [][RoundStarts =>
          /\ status' = StatusNone
          /\ current' = current
          /\ latest' = latest
          /\ rounds'[Len(rounds')].promise = "pending"
          /\ settled' = None
          /\ notified' = <<>>]_vars

\* a second round has started after all six versions were known: the flags
\* are clear and the records are kept
C34_Witness ==
    /\ Len(rounds) = 2
    /\ status = StatusNone
    /\ sent = VersionRequests
    /\ rounds[1].promise = "resolved"
    /\ \A f \in {"tasmota", "berryDriver", "hmi"} : current[f] # None /\ latest[f] # None


----------------------------------------------------------------------------
\* Page nodes

\* the last handler of the page node emitted 'page:update'
UpdateEmitted == \E n \in 1..Len(emitted) : emitted[n] = "page:update"

\* the last handler was onInput for a message of topic t
InputOfTopic(t) ==
    /\ pageInput.fn = "onInput"
    /\ "topic" \in DOMAIN pageInput.msg
    /\ pageInput.msg.topic = t

\* the last handler was onInput and the message was handled, by the page
\* type or as a 'data' message
InputHandled ==
    /\ pageInput.fn = "onInput"
    /\ pageInput.result # None
    /\ Get(pageInput.result).obj.handled = Bool(TRUE)

\* C36: a page node emits 'page:update' only while it is active; an active
\* page emits it for a message of a topic other than 'event' only if the
\* message was handled, and the base input handler never emits it for a
\* message of topic 'event'.
C36_UpdateOnlyActiveAndHandled ==
    UpdateEmitted =>
        /\ isActive
        /\ ~InputOfTopic(STR_MSG_TOPIC_EVENT)
        /\ InputHandled

\* C37: the page data never hold more entities than the maxEntities option
\* of the page, and none where no maxEntities is set; a 'data' message that
\* the page type leaves to the base class replaces the entity list by the
\* converted items of its payload, cut to maxEntities.
DataItems(msg) == IF IsArr(msg.payload) THEN msg.payload.arr ELSE <<msg.payload>>

DataReplaces ==
    (/\ pageInput'.fn = "onInput"
     /\ "topic" \in DOMAIN pageInput'.msg
     /\ pageInput'.msg.topic = STR_MSG_TOPIC_DATA
     /\ pageInput'.handleInput # "handled")
    => LET items == DataItems(pageInput'.msg)
           kept == IF Len(items) < maxEntitiesOrZero(options)
                   THEN Len(items) ELSE maxEntitiesOrZero(options)
       IN  /\ Len(pageData'.entities) = kept
           /\ \A n \in 1..kept :
                 pageData'.entities[n] = convertToEntityItemData(items[n])

C37_EntitiesBoundedAndReplaced ==
    /\ [](Len(pageData.entities) <= maxEntitiesOrZero(options))
    /\ [](maxEntitiesOrZero(options) = 0 => pageData.entities = <<>>)
    /\ [][DataReplaces]_vars

\* a 'data' message of three items on a page of two entities, which keeps
\* the first two
C37_Witness ==
    /\ InputOfTopic(STR_MSG_TOPIC_DATA)
    /\ pageInput.handleInput = "unhandled"
    /\ options = Some([maxEntities |-> 2])
    /\ IsArr(pageInput.msg.payload)
    /\ Len(pageInput.msg.payload.arr) = 3
    /\ Len(pageData.entities) = 2
    /\ pageData.entities[1] = [entityId |-> JStr(<<"e2">>)]
    /\ pageData.entities[2] = [entityId |-> JStr(<<"e1">>)]

\* C35: on a thermo page, every input that changes targetTemperature,
\* currentTemperature or status clears the page cache and requests an update,
\* so that a cached page is always the page of the current data;
\* generatePage returns the page of the current data, and the cached page
\* itself, leaving the cache alone, where there is one.
ThermoChangeClears ==
    data' # data =>
        /\ pageInput'.fn = "handleInput"
        /\ pageCache' = None
        /\ isActive => emitted' = <<"page:update">>

ThermoGenerates ==
    (pageInput'.fn = "generatePage") =>
        /\ generated' = Some(thermoPage(config, data))
        /\ pageCache # None => generated' = pageCache /\ pageCache' = pageCache

C35_ThermoCacheCoherent ==
    /\ [](pageCache # None => pageCache = Some(thermoPage(config, data)))
    /\ [][ThermoChangeClears /\ ThermoGenerates]_vars

\* the page has been generated again after the target temperature and the
\* measured temperature were changed, and shows both
C35_Witness ==
    /\ pageInput.fn = "generatePage"
    /\ data.targetTemperature = Num(215)
    /\ data.currentTemperature = Num(200)
    /\ generated # None
    /\ Get(generated).targetTemp = <<"215">>
    /\ Get(generated).currTemp = <<"20", ".", "0", " °", "C">>
    /\ pageCache = generated

====
